---- MODULE Spec2Model ----
(***************************************************************************)
(* Model of the godspeed-downloader backend (src-tauri/src):               *)
(*   - the engine update pipeline, install_engine_update                   *)
(*     (commands/engine.rs with utils/zip.rs),                             *)
(*   - the resilient copier, copy_with_retry (utils/zip.rs),               *)
(*   - the download supervisor, download_video (commands/downloader.rs).   *)
(* The file system, the HTTP server, the processes that lock the engine    *)
(* binaries and the spawned downloader are the environment: their answers  *)
(* are nondeterministic choices.                                           *)
(***************************************************************************)
EXTENDS Integers, Sequences, FiniteSets, TLC

VARIABLES
    \* ---- environment: file system and locks
    locked,         \* the engine binaries another process holds open
    binContent,     \* content of each engine binary in the binaries directory
    scratch,        \* [exists, nodes]: the scratch directory temp_dir
    \* ---- install_engine_update
    pc,             \* position in install_engine_update
    url,            \* its argument
    binaries_dir,   \* the resolved binaries directory
    idx,            \* index into ENGINE_BINARIES of the running for loop
    bytes,          \* the downloaded archive
    updated_count,
    errors,
    result,         \* the value returned
    ops,            \* the operations performed by the invocation, in order
    \* ---- copy_with_retry
    cpc,            \* position in copy_with_retry
    source,         \* path of the file to copy, in the scratch directory
    target,         \* the engine binary to write
    max_retries,
    attempt,
    last_error,
    copyRet,        \* the value copy_with_retry returned
    copyLog,        \* the fs::copy attempts and the sleeps of the call, in order
    \* ---- download_video
    dpc,            \* position in download_video
    final_file_path,
    emitted,        \* the events emitted to the frontend, in order
    received,       \* the events received from the channel rx, in order
    dret,           \* the value download_video returned
    rx,             \* the channel of the process's events: open, or closed
    \* ---- the quality argument of download_video
    quality,        \* the argument
    audio_bitrate,  \* get_audio_bitrate(&quality), commands/downloader.rs
    inline_bitrate, \* the match on quality.as_str() of download_video in lib.rs
    \* ---- overlapping invocations of install_engine_update
    opc,            \* position of each invocation
    temp_dir,       \* the name of the scratch directory each invocation chose
    tmp,            \* the directories of the system's temporary directory, by name
    oresult,        \* what each invocation returned
    \* ---- resolve_binaries_dir
    runEnv,         \* what the function finds: executable path, directories, variables
    resolved,       \* the value it returned
    \* is_file_locked(path) on its own
    probeFile,      \* the content of the file at path
    probeOpen,      \* what the open for writing answers
    probeRet,       \* the value returned, and the content of the file then
    \* successive invocations of install_engine_update in an environment that
    \* changes (they use pc, binaries_dir and idx too)
    sysEnv,         \* what resolve_binaries_dir would inspect now
    invocation,     \* the number of the invocation
    paths,          \* the log of the paths the invocations resolved and used
    \* download_video run a second time on the same lines
    run1,           \* what the first run received, emitted and returned
    \* the copy loop of install_engine_update, counted
    tally,          \* the fs::copy calls and the sleeps of the invocation so far
    \* install_engine_update as lib.rs inlines it, run on the same answers
    inl             \* its position, locals, files, log and returned value

vars == <<locked, binContent, scratch, pc, url, binaries_dir, idx, bytes,
          updated_count, errors, result, ops,
          cpc, source, target, max_retries, attempt, last_error, copyRet, copyLog,
          dpc, final_file_path, emitted, received, dret, rx,
          quality, audio_bitrate, inline_bitrate,
          opc, temp_dir, tmp, oresult, runEnv, resolved,
          probeFile, probeOpen, probeRet, sysEnv, invocation, paths, run1, tally, inl>>

envVars  == <<locked, binContent, scratch>>
pipeVars == <<pc, url, binaries_dir, idx, bytes, updated_count, errors, result>>
copyVars == <<cpc, source, target, max_retries, attempt, last_error, copyRet, copyLog>>
brVars   == <<quality, audio_bitrate, inline_bitrate>>
ovVars   == <<opc, temp_dir, tmp, oresult>>
rvVars   == <<runEnv, resolved>>
pbVars   == <<probeFile, probeOpen, probeRet>>
rnVars   == <<sysEnv, invocation, paths>>
twVars   == <<run1>>
tmVars   == <<tally>>
inVars   == <<inl>>
dlVars   == <<dpc, final_file_path, emitted, received, dret, rx, brVars, ovVars, rvVars, pbVars, rnVars, twVars, tmVars, inVars>>

-----------------------------------------------------------------------------
(* Bounds of the model *)

\* deepest nesting of the binaries inside a downloaded archive
MaxDepth == 2

\* how many engine binaries other processes hold open at the same time
MaxLocked == 1

\* largest max_retries copy_with_retry is called with on its own
MaxRetries == 3

\* how many output lines and error events the downloader's channel delivers
MaxEvents == 3

\* longest quality string given to download_video
MaxQualityLen == 4

\* how many invocations of install_engine_update overlap
MaxInvocations == 2

\* how many directories lie between the executable and the root, at most
MaxLevels == 6

\* invocations of install_engine_update that follow one another
MaxRuns == 2

-----------------------------------------------------------------------------
(* Constants of the program *)

ENGINE_BINARIES == <<"yt-dlp", "aria2c", "ffmpeg">>

Binaries == {ENGINE_BINARIES[k] : k \in 1..Len(ENGINE_BINARIES)}

ERROR_SHARING_VIOLATION == 32
ERROR_LOCK_VIOLATION == 33

\* the third argument of copy_with_retry in install_engine_update
COPY_MAX_RETRIES == 3

\* sleep between two attempts of copy_with_retry, in milliseconds
RETRY_SLEEP_MS == 500

-----------------------------------------------------------------------------
(* I/O errors: the kind and the raw OS error code of a std::io::Error *)

ErrSharing  == [kind |-> "Other", code |-> ERROR_SHARING_VIOLATION]
ErrLock     == [kind |-> "Other", code |-> ERROR_LOCK_VIOLATION]
ErrDenied   == [kind |-> "PermissionDenied", code |-> 5]
ErrDiskFull == [kind |-> "StorageFull", code |-> 112]
ErrInvalid  == [kind |-> "InvalidInput", code |-> 87]

\* what an open-for-write or a copy onto a file held by another process fails with
LockErrors == {ErrSharing, ErrLock, ErrDenied}

IoOk == [kind |-> "Ok", code |-> 0]

\* last_error = None
NoError == [kind |-> "None", code |-> 0]

\* Result<String, AppError>: an AppError with the variant its Serialize
\* names (LOGIC, IO, NETWORK, ZIP, TAURI), or the success message; count and
\* detail are the values formatted into the message
ErrWith(kind, msg, n, detail) ==
    [ok |-> FALSE, kind |-> kind, msg |-> msg, count |-> n, detail |-> detail]
Err(kind, msg) == ErrWith(kind, msg, 0, <<>>)
Ok(msg, n) == [ok |-> TRUE, kind |-> "OK", msg |-> msg, count |-> n, detail |-> <<>>]

\* no value returned yet
NoResult == [ok |-> FALSE, kind |-> "NONE", msg |-> "none", count |-> 0, detail |-> <<>>]

\* an entry of the log of operations
Op(name, bin, code) == [op |-> name, bin |-> bin, code |-> code]

-----------------------------------------------------------------------------
(* Paths and file contents.  A path is a sequence of components, relative  *)
(* to the scratch directory for the files of the scratch directory.  A     *)
(* file content is a sequence of strings that names where the bytes come   *)
(* from.                                                                   *)

NoPath == <<>>

Absent    == <<"absent">>      \* the file does not exist
Old       == <<"old">>         \* installed before the invocation
Truncated == <<"truncated">>   \* left by a copy that failed while writing
ZipData   == <<"zip">>         \* the archive written by this invocation
StaleZip  == <<"stale-zip">>   \* an archive left by an earlier invocation

ZIP_NAME    == <<"engine.zip">>
EXTRACT_DIR == <<"extracted">>

FileNode(p, d) == [path |-> p, kind |-> "file", data |-> d]
DirNode(p)     == [path |-> p, kind |-> "dir", data |-> <<>>]

Parent(p) == SubSeq(p, 1, Len(p) - 1)
FileName(p) == p[Len(p)]
Prefixes(p) == {SubSeq(p, 1, k) : k \in 1..Len(p)}

IsFileAt(nodes, p) == \E n \in nodes : n.path = p /\ n.kind = "file"
IsDirAt(nodes, p)  == p = NoPath \/ \E n \in nodes : n.path = p /\ n.kind = "dir"
ExistsAt(nodes, p) == IsFileAt(nodes, p) \/ IsDirAt(nodes, p)

\* fs::create_dir_all(p): every missing ancestor and p itself; fails when a
\* component exists as a file
CreateDirAll(nodes, p) ==
    IF \E q \in Prefixes(p) : IsFileAt(nodes, q)
    THEN [nodes |-> nodes, err |-> TRUE]
    ELSE [nodes |-> nodes \cup {DirNode(q) : q \in Prefixes(p)}, err |-> FALSE]

\* File::create(p) followed by the write of data d: truncates an existing
\* file; fails on a directory and under a parent that is not a directory
WriteFile(nodes, p, d) ==
    IF IsDirAt(nodes, p) \/ ~IsDirAt(nodes, Parent(p))
    THEN [nodes |-> nodes, err |-> TRUE]
    ELSE [nodes |-> {n \in nodes : n.path # p} \cup {FileNode(p, d)}, err |-> FALSE]

-----------------------------------------------------------------------------
(* The downloaded archive: whether the bytes are a ZIP archive at all, and *)
(* its entries in stored order.                                            *)

DirNames == <<"pkg", "bin", "x64", "opt">>

ArchiveDir(d) == SubSeq(DirNames, 1, d)

\* the bytes of an archive entry
EntryData(p) == <<"new">> \o p

FileEntry(p) == [path |-> p, isdir |-> FALSE, data |-> EntryData(p)]
DirEntry(p)  == [path |-> p, isdir |-> TRUE, data |-> <<>>]

Placements == {"absent", "present", "unsafe"}

\* the entry of binary b: under the directory of depth d, or with a path
\* that leaves the destination
BinaryEntries(b, place, d) ==
    CASE place = "absent"  -> <<>>
      [] place = "present" -> <<FileEntry(ArchiveDir(d) \o <<b>>)>>
      [] place = "unsafe"  -> <<FileEntry(<<"..", b>>)>>

RECURSIVE DirEntries(_)
DirEntries(d) == IF d = 0 THEN <<>> ELSE Append(DirEntries(d - 1), DirEntry(ArchiveDir(d)))

MakeArchive(places, d) ==
    [valid |-> TRUE,
     entries |-> DirEntries(d) \o <<FileEntry(<<"README">>)>>
                 \o BinaryEntries(ENGINE_BINARIES[1], places[ENGINE_BINARIES[1]], d)
                 \o BinaryEntries(ENGINE_BINARIES[2], places[ENGINE_BINARIES[2]], d)
                 \o BinaryEntries(ENGINE_BINARIES[3], places[ENGINE_BINARIES[3]], d)]

NotAnArchive == [valid |-> FALSE, entries |-> <<>>]

\* the archives a server answers with: any subset of the binaries under a
\* directory of any depth; one entry that leaves the destination beside any
\* subset of the other binaries; bytes that are no archive
Archives ==
    {MakeArchive(places, d) :
        places \in [Binaries -> {"absent", "present"}], d \in 0..MaxDepth}
    \cup {MakeArchive(places, 1) :
        places \in {pl \in [Binaries -> Placements] :
                        Cardinality({b \in Binaries : pl[b] = "unsafe"}) = 1}}
    \cup {NotAnArchive}

\* ZipFile::enclosed_name: None when the stored path climbs out of the
\* destination ("..": one level up, any other component: one level down)
RECURSIVE ClimbsOut(_, _)
ClimbsOut(p, depth) ==
    IF p = <<>> THEN FALSE
    ELSE IF Head(p) = ".." THEN (depth = 0 \/ ClimbsOut(Tail(p), depth - 1))
    ELSE ClimbsOut(Tail(p), depth + 1)

HasEnclosedName(e) == ~ClimbsOut(e.path, 0)

-----------------------------------------------------------------------------
(* utils/zip.rs *)

\* the file a path with ".." components names
RECURSIVE ResolvePath(_, _)
ResolvePath(p, acc) ==
    IF p = <<>> THEN acc
    ELSE IF Head(p) = ".."
         THEN ResolvePath(Tail(p), IF acc = <<>> THEN acc ELSE SubSeq(acc, 1, Len(acc) - 1))
         ELSE ResolvePath(Tail(p), Append(acc, Head(p)))

\* the iteration with the stored name joined to the destination as it is
\* (ZipFile::name instead of enclosed_name)
ExtractEntry_NoGuard(nodes, e) ==
    LET outpath == ResolvePath(EXTRACT_DIR \o e.path, <<>>) IN
    IF e.isdir THEN CreateDirAll(nodes, outpath)
    ELSE LET made == IF ExistsAt(nodes, Parent(outpath))
                     THEN [nodes |-> nodes, err |-> FALSE]
                     ELSE CreateDirAll(nodes, Parent(outpath))
         IN  IF made.err THEN made ELSE WriteFile(made.nodes, outpath, e.data)

\* one iteration of the for loop of extract_zip, on entry e
ExtractEntry(nodes, e) ==
    LET outpath == EXTRACT_DIR \o e.path IN
    IF ~HasEnclosedName(e) THEN [nodes |-> nodes, err |-> FALSE]
    ELSE IF e.isdir THEN CreateDirAll(nodes, outpath)
    ELSE LET made == IF ExistsAt(nodes, Parent(outpath))
                     THEN [nodes |-> nodes, err |-> FALSE]
                     ELSE CreateDirAll(nodes, Parent(outpath))
         IN  IF made.err THEN made ELSE WriteFile(made.nodes, outpath, e.data)

\* the for loop of extract_zip over the first n entries, in stored order
RECURSIVE ExtractEntries(_, _, _)
ExtractEntries(nodes, entries, n) ==
    IF n = 0 THEN [nodes |-> nodes, err |-> FALSE]
    ELSE LET prev == ExtractEntries(nodes, entries, n - 1) IN
         IF prev.err THEN prev ELSE ExtractEntry(prev.nodes, entries[n])

\* the direct children of directory dir
Children(nodes, dir) ==
    {n \in nodes : Len(n.path) = Len(dir) + 1 /\ Parent(n.path) = dir}

\* find_file_recursive(dir, filename): the paths it can return; the empty
\* set stands for None.  fs::read_dir yields the entries in no specified
\* order, and the first match of the depth-first walk is returned: every
\* matching file is the first match of some order.
RECURSIVE find_file_recursive(_, _, _)
find_file_recursive(nodes, dir, filename) ==
    LET entries == Children(nodes, dir) IN
    {n.path : n \in {m \in entries : m.kind = "file" /\ FileName(m.path) = filename}}
    \cup UNION {find_file_recursive(nodes, n.path, filename) :
                  n \in {m \in entries : m.kind = "dir"}}

DataAt(nodes, p) == (CHOOSE n \in nodes : n.path = p).data

\* where an operation of the extraction fails on its own, if anywhere: the
\* creation of the destination, the opening of the archive, the reading of
\* entry f (by_index), an I/O operation of entry f
FailurePoint(step, f) == [step |-> step, f |-> f]
FailurePoints(archive) ==
    {FailurePoint(step, 0) : step \in {"none", "create_dir_all", "open"}}
    \cup {FailurePoint(step, f) : step \in {"by_index", "io"}, f \in 1..Len(archive.entries)}

\* extract_zip(source, destination) with the failure at point p: the nodes
\* left and the error returned ("": Ok)
extract_zip_at(nodes, archive, p) ==
    LET made == CreateDirAll(nodes, EXTRACT_DIR)
        n    == Len(archive.entries)
        all  == ExtractEntries(made.nodes, archive.entries, n)
    IN  IF p.step = "create_dir_all" \/ made.err THEN [nodes |-> nodes, err |-> "IO"]
        ELSE IF p.step = "open" THEN [nodes |-> made.nodes, err |-> "IO"]
        ELSE IF ~archive.valid THEN [nodes |-> made.nodes, err |-> "ZIP"]
        ELSE IF p.step = "none"
        THEN [nodes |-> all.nodes, err |-> IF all.err THEN "IO" ELSE ""]
        ELSE [nodes |-> ExtractEntries(made.nodes, archive.entries, p.f - 1).nodes,
              err |-> IF p.step = "by_index" THEN "ZIP" ELSE "IO"]

\* extract_zip(source, destination) on the scratch directory: the outcomes,
\* each the nodes left and the error returned ("": Ok).  An I/O operation
\* can fail on its own (disk full, access denied): at the creation of the
\* destination, at the opening of the archive, or at entry f, as can the
\* reading of entry f (by_index).
extract_zip(nodes, archive) ==
    {extract_zip_at(nodes, archive, p) : p \in FailurePoints(archive)}

\* the test with ERROR_LOCK_VIOLATION forgotten
IsSharingViolation_Only32(e) == e.code = ERROR_SHARING_VIOLATION

\* the test of copy_with_retry that decides a retry
IsSharingViolation(e) ==
    e.code = ERROR_SHARING_VIOLATION \/ e.code = ERROR_LOCK_VIOLATION

-----------------------------------------------------------------------------
(* commands/engine.rs *)

\* is_file_locked where every failure of the open counts as a lock
is_file_locked_AnyFailure(exists, opened) == exists /\ opened # IoOk

\* is_file_locked, given whether the path exists and what
\* OpenOptions::new().write(true).open(path) answers
is_file_locked(exists, opened) ==
    IF ~exists THEN FALSE
    ELSE IF opened = IoOk THEN FALSE
    ELSE \/ opened.kind = "PermissionDenied"
         \/ opened.code = ERROR_SHARING_VIOLATION
         \/ opened.code = ERROR_LOCK_VIOLATION

\* OpenOptions::new().write(true): no create, no truncate
WRITE_ONLY == [write |-> TRUE, create |-> FALSE, truncate |-> FALSE]

\* the content of a file after opts.open(path) answered opened
OpenFile(opts, content, opened) ==
    IF opened # IoOk THEN content
    ELSE IF content = Absent THEN (IF opts.create THEN Truncated ELSE Absent)
    ELSE IF opts.truncate THEN Truncated ELSE content

\* the contents of a probed file, and every answer of the open: Ok, or an
\* io::Error with its kind and its raw_os_error (0: None)
ProbedFiles == {Absent, Old, Truncated}
OpenResults ==
    {IoOk} \cup {[kind |-> k, code |-> c] :
                  k \in {"PermissionDenied", "NotFound", "InvalidInput", "StorageFull", "Other"},
                  c \in {0, 2, 5, ERROR_SHARING_VIOLATION, ERROR_LOCK_VIOLATION, 87, 112}}

NoProbe == [done |-> FALSE, locked |-> FALSE, content |-> Absent]

ProbeIdle ==
    /\ probeFile = Absent
    /\ probeOpen = NoError
    /\ probeRet = NoProbe

\* one call of is_file_locked(path)
IsFileLocked ==
    /\ probeOpen # NoError
    /\ ~probeRet.done
    /\ LET exists == probeFile # Absent IN
       probeRet' = [done |-> TRUE,
                    locked |-> is_file_locked(exists, probeOpen),
                    content |-> IF exists THEN OpenFile(WRITE_ONLY, probeFile, probeOpen)
                                ELSE probeFile]
    /\ UNCHANGED <<probeFile, probeOpen, envVars, pipeVars, ops, copyVars, dpc,
                   final_file_path, emitted, received, dret, rx, brVars, ovVars, rvVars, rnVars, twVars, tmVars, inVars>>

\* what the file system answers to an open for writing of engine binary b
OpenAnswers(b) == IF b \in locked THEN LockErrors ELSE {IoOk, ErrInvalid}

\* what the file system answers to fs::copy onto engine binary b
CopyAnswers(b) == IF b \in locked THEN LockErrors ELSE {IoOk, ErrDiskFull}

\* number of directories resolve_binaries_dir looks into for src-tauri
SEARCH_LEVELS == 5

Dir(base, level) == [base |-> base, level |-> level]
NoDir == Dir("none", 0)

\* exe_dir as resolve_binaries_dir reads it: the separator of the platform
\* and the two components of the path that the test of the layout can meet
ExeDir(sep, comps) == [sep |-> sep, comps |-> comps]
Separators == {"/", "\\"}
PathComponents == {"app", "target", "debug", "release", "mytarget", "debugger"}
ExeDirs == {ExeDir(sep, <<c1, c2>>) : sep \in Separators, c1 \in PathComponents,
                                     c2 \in PathComponents}
PackagedDir == ExeDir("\\", <<"app", "app">>)
BuildDir == ExeDir("/", <<"target", "debug">>)

EndsWith(c, text) == c = text \/ (text = "target" /\ c = "mytarget")
StartsWith(c, text) == c = text \/ (text = "debug" /\ c = "debugger")

\* exe_path_str.contains(first + sep + second), a test on the string: the
\* text may begin inside one component and end inside the next
Contains(exe_dir, first, sep, second) ==
    /\ exe_dir.sep = sep
    /\ \E k \in 1..(Len(exe_dir.comps) - 1) :
         EndsWith(exe_dir.comps[k], first) /\ StartsWith(exe_dir.comps[k + 1], second)

is_dev_mode(exe_dir) ==
    \/ Contains(exe_dir, "target", "\\", "debug")
    \/ Contains(exe_dir, "target", "/", "debug")
    \/ Contains(exe_dir, "target", "\\", "release")
    \/ Contains(exe_dir, "target", "/", "release")

\* std::env::var("CARGO_MANIFEST_DIR"): Ok for a value that is valid Unicode,
\* Err(NotPresent) when unset, Err(NotUnicode) for any other value
ManifestValues == {"unset", "unicode", "not-unicode"}
env_var(value) == IF value = "unicode" THEN "Ok" ELSE "Err"

\* the for loop of resolve_binaries_dir: the first of the levels k..SEARCH_LEVELS
\* (1: the executable's directory, 2: its parent, ...) that exists and holds
\* src-tauri; 0 when there is none
RECURSIVE SearchSrcTauri(_, _)
SearchSrcTauri(env, k) ==
    IF k > SEARCH_LEVELS \/ k > env.levels THEN 0
    ELSE IF k \in env.srcTauri THEN k
    ELSE SearchSrcTauri(env, k + 1)

\* the function with the last resort of the development mode left out
resolve_binaries_dir_NoLastResort(e) ==
    IF e.exe = "err" THEN [ok |-> FALSE, kind |-> "IO", dir |-> NoDir]
    ELSE IF e.exe = "root" THEN [ok |-> FALSE, kind |-> "LOGIC", dir |-> NoDir]
    ELSE IF is_dev_mode(e.exe_dir)
    THEN LET found == SearchSrcTauri(e, 1) IN
         IF found # 0 THEN [ok |-> TRUE, kind |-> "OK", dir |-> Dir("src-tauri", found)]
         ELSE IF env_var(e.manifest) = "Ok" THEN [ok |-> TRUE, kind |-> "OK", dir |-> Dir("manifest", 0)]
         ELSE [ok |-> FALSE, kind |-> "LOGIC", dir |-> NoDir]
    ELSE [ok |-> TRUE, kind |-> "OK", dir |-> Dir("exe", 0)]

\* resolve_binaries_dir in environment env: exe ("err": current_exe fails,
\* "root": the path has no parent, "ok"), exe_dir (the executable's
\* directory), levels (the directories from the executable's up to the
\* root), srcTauri (the levels that hold src-tauri), manifest (the value of
\* CARGO_MANIFEST_DIR)
resolve_binaries_dir(env) ==
    IF env.exe = "err" THEN [ok |-> FALSE, kind |-> "IO", dir |-> NoDir]
    ELSE IF env.exe = "root" THEN [ok |-> FALSE, kind |-> "LOGIC", dir |-> NoDir]
    ELSE IF is_dev_mode(env.exe_dir)
    THEN LET found == SearchSrcTauri(env, 1) IN
         IF found # 0 THEN [ok |-> TRUE, kind |-> "OK", dir |-> Dir("src-tauri", found)]
         ELSE IF env_var(env.manifest) = "Ok" THEN [ok |-> TRUE, kind |-> "OK", dir |-> Dir("manifest", 0)]
         ELSE [ok |-> TRUE, kind |-> "OK", dir |-> Dir("exe", 0)]
    ELSE [ok |-> TRUE, kind |-> "OK", dir |-> Dir("exe", 0)]

Env(exe, exe_dir, levels, srcTauri, manifest) ==
    [exe |-> exe, exe_dir |-> exe_dir, levels |-> levels, srcTauri |-> srcTauri,
     manifest |-> manifest]

\* every environment: the executable's path, the layout, the directories
\* above the executable and those that hold src-tauri, CARGO_MANIFEST_DIR
Environments(depth) ==
    UNION {{Env("ok", exe_dir, levels, srcTauri, manifest) :
                exe_dir \in ExeDirs, srcTauri \in SUBSET (1..levels),
                manifest \in ManifestValues} :
           levels \in 1..depth}
    \cup {Env(exe, PackagedDir, 0, {}, manifest) :
        exe \in {"err", "root"}, manifest \in ManifestValues}

NoEnv == Env("none", PackagedDir, 0, {}, "unset")
NotResolved == [ok |-> FALSE, kind |-> "NONE", dir |-> NoDir]

ResolveIdle ==
    /\ runEnv = NoEnv
    /\ resolved = NotResolved

\* let binaries_dir = resolve_binaries_dir()
Resolve ==
    /\ runEnv # NoEnv
    /\ resolved = NotResolved
    /\ resolved' = resolve_binaries_dir(runEnv)
    /\ UNCHANGED <<runEnv, envVars, pipeVars, ops, copyVars, dpc, final_file_path, emitted,
                   received, dret, rx, brVars, ovVars, pbVars, rnVars, twVars, tmVars, inVars>>

\* the environments install_engine_update is run in
RunEnvironments ==
    {Env("ok", PackagedDir, 2, {}, "unset"),      \* packaged layout
     Env("ok", BuildDir, 4, {3}, "unicode"),      \* development layout
     Env("err", PackagedDir, 2, {}, "unset"),
     Env("root", PackagedDir, 0, {}, "unset")}

\* the environments an invocation can find itself in while it runs: those
\* above, and the development layout with src-tauri moved or gone
SysEnvironments ==
    RunEnvironments \cup {Env("ok", BuildDir, 4, {2}, "unicode"),
                          Env("ok", BuildDir, 4, {}, "unicode")}

\* binaries_dir.join(binary)
Join(dir, binary) == [dir |-> dir, name |-> binary]

PathUse(step, path) == [run |-> invocation, step |-> step, path |-> path]

RunsIdle ==
    /\ sysEnv = NoEnv
    /\ invocation = 0
    /\ paths = <<>>

notRuns == <<locked, binContent, scratch, url, bytes, updated_count, errors, result, ops,
             copyVars, dpc, final_file_path, emitted, received, dret, rx, brVars, ovVars,
             rvVars, pbVars, twVars, tmVars, inVars>>

\* something outside the program changes what the resolver would find
ChangeEnvironment ==
    /\ \E e \in SysEnvironments \ {sysEnv} : sysEnv' = e
    /\ UNCHANGED <<invocation, paths, pc, binaries_dir, idx, notRuns>>

\* an invocation starts: let binaries_dir = resolve_binaries_dir()?
RunResolve ==
    /\ pc = "idle"
    /\ invocation < MaxRuns
    /\ invocation' = invocation + 1
    /\ LET r == resolve_binaries_dir(sysEnv) IN
       /\ binaries_dir' = r.dir
       /\ paths' = Append(paths, [run |-> invocation + 1, step |-> "resolve",
                                  path |-> Join(r.dir, "")])
       /\ IF r.ok THEN pc' = "probe" /\ idx' = 1
                  ELSE pc' = "idle" /\ UNCHANGED idx
    /\ UNCHANGED <<sysEnv, notRuns>>

\* step 2: binary_path = binaries_dir.join(binary); the probe may find it locked
RunProbe ==
    /\ pc = "probe"
    /\ paths' = Append(paths, PathUse("probe", Join(binaries_dir, ENGINE_BINARIES[idx])))
    /\ \/ pc' = "idle" /\ idx' = 1
       \/ IF idx < Len(ENGINE_BINARIES)
          THEN idx' = idx + 1 /\ pc' = "probe"
          ELSE idx' = 1 /\ pc' = "scratch"
    /\ UNCHANGED <<sysEnv, invocation, binaries_dir, notRuns>>

\* steps 3 and 4, which use the scratch directory only, succeed or fail
RunDownload ==
    /\ pc = "scratch"
    /\ pc' \in {"find", "idle"}
    /\ UNCHANGED <<sysEnv, invocation, paths, binaries_dir, idx, notRuns>>

\* step 5 with the target re-resolved when it is needed
RunCopy_Reresolves ==
    /\ pc = "find"
    /\ paths' = Append(paths, PathUse("copy", Join(resolve_binaries_dir(sysEnv).dir, ENGINE_BINARIES[idx])))
    /\ IF idx < Len(ENGINE_BINARIES)
       THEN idx' = idx + 1 /\ pc' = "find"
       ELSE idx' = 1 /\ pc' = "idle"
    /\ UNCHANGED <<sysEnv, invocation, binaries_dir, notRuns>>

\* step 5: target_path = binaries_dir.join(binary_name), computed for every
\* required binary; after the last one the invocation returns
RunCopy ==
    /\ pc = "find"
    /\ paths' = Append(paths, PathUse("copy", Join(binaries_dir, ENGINE_BINARIES[idx])))
    /\ IF idx < Len(ENGINE_BINARIES)
       THEN idx' = idx + 1 /\ pc' = "find"
       ELSE idx' = 1 /\ pc' = "idle"
    /\ UNCHANGED <<sysEnv, invocation, binaries_dir, notRuns>>

-----------------------------------------------------------------------------
(* download_video: text.  A line is a sequence of tokens: the marker       *)
(* "Destination:", a white-space character, the extension ".mp3", or any   *)
(* other piece of text, which holds none of the three.                     *)

MARKER == "Destination:"
MP3 == ".mp3"
Whitespace == {" ", "\n"}

NoText == <<>>

\* a byte that is not valid UTF-8, and U+FFFD, what from_utf8_lossy puts for it
INVALID_BYTE == "<0xFF>"
REPLACEMENT_CHARACTER == "<U+FFFD>"

\* String::from_utf8_lossy(&line).to_string()
from_utf8_lossy(line) ==
    [k \in 1..Len(line) |->
        IF line[k] = INVALID_BYTE THEN REPLACEMENT_CHARACTER ELSE line[k]]

\* str::find(MARKER) from position k on: the index of the first marker, 0 for None
RECURSIVE Find(_, _)
Find(line, k) ==
    IF k > Len(line) THEN 0
    ELSE IF line[k] = MARKER THEN k
    ELSE Find(line, k + 1)

\* str::rfind(MARKER): the index of the last marker
RECURSIVE RFind(_, _)
RFind(line, k) ==
    IF k = 0 THEN 0
    ELSE IF line[k] = MARKER THEN k
    ELSE RFind(line, k - 1)

RECURSIVE TrimStart(_)
TrimStart(t) ==
    IF t # <<>> /\ Head(t) \in Whitespace THEN TrimStart(Tail(t)) ELSE t

RECURSIVE TrimEnd(_)
TrimEnd(t) ==
    IF t # <<>> /\ t[Len(t)] \in Whitespace THEN TrimEnd(SubSeq(t, 1, Len(t) - 1)) ELSE t

\* str::trim
Trim(t) == TrimEnd(TrimStart(t))

\* str::ends_with(".mp3")
EndsWithMp3(t) == t # <<>> /\ t[Len(t)] = MP3

\* the text after the last marker instead of the first
DestinationPath_Last(line) ==
    Trim(SubSeq(line, RFind(line, Len(line)) + 1, Len(line)))

\* line_str[path_start + 12..].trim(), for a line that contains the marker
\* (the marker is 12 bytes long: one token)
DestinationPath(line) ==
    Trim(SubSeq(line, Find(line, 1) + 1, Len(line)))

\* the new value of final_file_path after a line, in either match arm
CapturePath(line, current) ==
    IF Find(line, 1) # 0
    THEN IF EndsWithMp3(DestinationPath(line)) THEN DestinationPath(line) ELSE current
    ELSE current

\* the lines the downloader prints
Lines ==
    {<<"[download] 42%">>,
     <<" ">>,
     <<"[ExtractAudio] ", MARKER, " ", "a", MP3, "\n">>,
     <<MARKER, "b", MP3>>,
     <<"[download] ", MARKER, " ", "a", ".webm">>,
     <<MARKER, " ", "a", ".webm", " ", MARKER, " ", "b", MP3>>,
     <<"[download] ", INVALID_BYTE, "%">>}

\* status.code of CommandEvent::Terminated
ExitCodes == {"Some(0)", "Some(1)", "None"}

EVENT_DOWNLOAD_PROGRESS == "download-progress"
EVENT_DOWNLOAD_COMPLETE == "download-complete"

Emit(name, payload) == [name |-> name, payload |-> payload]
CompletedNotice == <<"Download completed!">>
ErrorNotice(code) == <<"[ERROR] Process exited with code: ", code>>
Fallback == <<"Download completed">>

Event(type, line, code) == [type |-> type, line |-> line, code |-> code]

DlOk(v) == [ok |-> TRUE, kind |-> "OK", value |-> v]
DlErr(kind) == [ok |-> FALSE, kind |-> kind, value |-> NoText]
NoDlRet == [ok |-> FALSE, kind |-> "NONE", value |-> NoText]

NoTally == [copies |-> 0, sleeps |-> 0]

NoRun1 == [done |-> FALSE, received |-> <<>>, emitted |-> <<>>, dret |-> NoDlRet]

DownloadIdle ==
    /\ dpc = "idle"
    /\ final_file_path = NoText
    /\ emitted = <<>>
    /\ received = <<>>
    /\ dret = NoDlRet
    /\ rx = "none"

otherVars == <<envVars, pipeVars, ops, copyVars, brVars, ovVars, rvVars, pbVars, rnVars, twVars, tmVars, inVars>>

-----------------------------------------------------------------------------
(* Invocations of install_engine_update that overlap: what each does to    *)
(* the scratch directory, commands/engine.rs steps 3 to 6.  A file of a    *)
(* scratch directory is known by its name, the invocation that wrote it    *)
(* and the invocation whose download its bytes come from.                  *)

Invocations == 1..MaxInvocations

\* std::env::temp_dir().join("godspeed_engine_update")
SCRATCH_DIR_NAME == "godspeed_engine_update"
ScratchNames == {SCRATCH_DIR_NAME}
NoName == ""

NoTmpDir == [exists |-> FALSE, files |-> {}]
TmpFile(name, by, origin) == [name |-> name, by |-> by, origin |-> origin]

OverlapIdle ==
    /\ opc = [i \in Invocations |-> "idle"]
    /\ temp_dir = [i \in Invocations |-> NoName]
    /\ tmp = [d \in ScratchNames |-> NoTmpDir]
    /\ oresult = [i \in Invocations |-> "none"]

notOverlap == <<envVars, pipeVars, ops, copyVars, dpc, final_file_path, emitted, received,
                dret, rx, brVars, rvVars, pbVars, rnVars, twVars, tmVars, inVars>>

OReturn(i, r) ==
    /\ opc' = [opc EXCEPT ![i] = "done"]
    /\ oresult' = [oresult EXCEPT ![i] = r]

OGoto(i, to) ==
    /\ opc' = [opc EXCEPT ![i] = to]
    /\ UNCHANGED oresult

\* Step 3: the name of the scratch directory, the removal of an existing
\* one (a failure is ignored) and create_dir_all
OPrepareScratch(i) ==
    /\ opc[i] = "idle"
    /\ LET name == SCRATCH_DIR_NAME IN
       /\ temp_dir' = [temp_dir EXCEPT ![i] = name]
       /\ \E removed \in BOOLEAN, created \in BOOLEAN :
            LET afterRm == IF tmp[name].exists /\ removed THEN NoTmpDir ELSE tmp[name] IN
            /\ ~tmp[name].exists => removed
            /\ afterRm.exists => created
            /\ IF created
               THEN /\ tmp' = [tmp EXCEPT ![name] = [afterRm EXCEPT !.exists = TRUE]]
                    /\ OGoto(i, "http")
               ELSE /\ tmp' = [tmp EXCEPT ![name] = afterRm]
                    /\ OReturn(i, "IO")
    /\ UNCHANGED notOverlap

\* Step 3: the download
OHttpGet(i) ==
    /\ opc[i] = "http"
    /\ \/ OGoto(i, "write")
       \/ OReturn(i, "NETWORK")
    /\ UNCHANGED <<temp_dir, tmp, notOverlap>>

\* Step 3: File::create(zip_path) and write_all
OWriteZip(i) ==
    /\ opc[i] = "write"
    /\ LET name == temp_dir[i] IN
       IF ~tmp[name].exists
       THEN OReturn(i, "LOGIC") /\ UNCHANGED tmp
       ELSE /\ tmp' = [tmp EXCEPT ![name].files =
                        {f \in @ : f.name # "engine.zip"} \cup {TmpFile("engine.zip", i, i)}]
            /\ OGoto(i, "extract")
    /\ UNCHANGED <<temp_dir, notOverlap>>

\* Step 4: extract_zip opens the archive that is at zip_path and writes
\* its entries under extracted
OExtractZip(i) ==
    /\ opc[i] = "extract"
    /\ LET name == temp_dir[i]
           zips == {f \in tmp[name].files : f.name = "engine.zip"}
       IN  IF zips = {}
           THEN OReturn(i, "IO") /\ UNCHANGED tmp
           ELSE \E z \in zips :
                /\ tmp' = [tmp EXCEPT ![name].files =
                            {f \in @ : f.name # "extracted"}
                            \cup {TmpFile("extracted", i, z.origin)}]
                /\ OGoto(i, "cleanup")
    /\ UNCHANGED <<temp_dir, notOverlap>>

\* Steps 5 to 7: the binaries found under extracted are copied, the scratch
\* directory is removed (a failure is ignored) and the result returned
OFinish(i) ==
    /\ opc[i] = "cleanup"
    /\ LET name == temp_dir[i]
           found == {f \in tmp[name].files : f.name = "extracted"}
       IN  /\ \E removed \in BOOLEAN :
                tmp' = [tmp EXCEPT ![name] = IF removed THEN NoTmpDir ELSE @]
           /\ OReturn(i, IF found = {} THEN "LOGIC" ELSE "OK")
    /\ UNCHANGED <<temp_dir, notOverlap>>

-----------------------------------------------------------------------------
(* The audio quality: config.rs and the inlined copy in lib.rs.  A string  *)
(* is the sequence of its characters.                                      *)

Q128k == <<"1", "2", "8", "k">>
Q192k == <<"1", "9", "2", "k">>
Q256k == <<"2", "5", "6", "k">>
Q320k == <<"3", "2", "0", "k">>

B128K == <<"1", "2", "8", "K">>
B192K == <<"1", "9", "2", "K">>
B256K == <<"2", "5", "6", "K">>
B320K == <<"3", "2", "0", "K">>

\* str::to_lowercase, on the characters of the model
ToLower(q) == [k \in 1..Len(q) |-> IF q[k] = "K" THEN "k" ELSE q[k]]

\* the match with the quality compared whatever its case
get_audio_bitrate_IgnoreCase(q) ==
    CASE ToLower(q) = Q128k -> B128K
      [] ToLower(q) = Q192k -> B192K
      [] ToLower(q) = Q256k -> B256K
      [] ToLower(q) = Q320k -> B320K
      [] OTHER -> B320K

\* config.rs: get_audio_bitrate(quality)
get_audio_bitrate(q) ==
    CASE q = Q128k -> B128K
      [] q = Q192k -> B192K
      [] q = Q256k -> B256K
      [] q = Q320k -> B320K
      [] OTHER -> B320K

\* lib.rs, download_video: match quality.as_str() { .. }
InlineBitrate(q) ==
    IF q = Q128k THEN B128K
    ELSE IF q = Q192k THEN B192K
    ELSE IF q = Q256k THEN B256K
    ELSE IF q = Q320k THEN B320K
    ELSE B320K

QualityChars == {"0", "1", "2", "3", "5", "6", "8", "9", "k", "K"}
Qualities == UNION {[1..n -> QualityChars] : n \in 0..MaxQualityLen}

BitrateIdle ==
    /\ quality = NoText
    /\ audio_bitrate = NoText
    /\ inline_bitrate = NoText

\* commands/downloader.rs: let audio_bitrate = get_audio_bitrate(&quality)
MapQuality ==
    /\ audio_bitrate = NoText
    /\ audio_bitrate' = get_audio_bitrate(quality)
    /\ UNCHANGED <<quality, inline_bitrate, envVars, pipeVars, ops, copyVars,
                   dpc, final_file_path, emitted, received, dret, rx, ovVars, rvVars, pbVars, rnVars, twVars, tmVars, inVars>>

\* lib.rs: let audio_bitrate = match quality.as_str() { .. }
MapQualityInline ==
    /\ inline_bitrate = NoText
    /\ inline_bitrate' = InlineBitrate(quality)
    /\ UNCHANGED <<quality, audio_bitrate, envVars, pipeVars, ops, copyVars,
                   dpc, final_file_path, emitted, received, dret, rx, ovVars, rvVars, pbVars, rnVars, twVars, tmVars, inVars>>

\* the sidecar command is built and spawned; either can fail
StartDownload ==
    /\ dpc = "idle"
    /\ \/ dpc' = "returned" /\ dret' = DlErr("TAURI") /\ UNCHANGED rx
       \/ dpc' = "listening" /\ rx' = "open" /\ UNCHANGED dret
    /\ UNCHANGED <<final_file_path, emitted, received, otherVars>>

Delivered == Cardinality({k \in 1..Len(received) : received[k].type # "Terminated"})
Seen(type) == \E k \in 1..Len(received) : received[k].type = type

\* the arm CommandEvent::Stdout(line) without the test for a blank line
RecvStdout_EmitsBlank(line) ==
    /\ dpc = "listening"
    /\ rx = "open"
    /\ Delivered < MaxEvents
    /\ received' = Append(received, Event("Stdout", line, ""))
    /\ LET line_str == from_utf8_lossy(line) IN
       /\ final_file_path' = CapturePath(line_str, final_file_path)
       /\ emitted' = Append(emitted, Emit(EVENT_DOWNLOAD_PROGRESS, line_str))
    /\ UNCHANGED <<dpc, dret, rx, otherVars>>

\* the arm CommandEvent::Stdout(line) that announces the file as soon as a
\* line names it
RecvStdout_CompletesEarly(line) ==
    /\ dpc = "listening"
    /\ rx = "open"
    /\ Delivered < MaxEvents
    /\ received' = Append(received, Event("Stdout", line, ""))
    /\ LET line_str == from_utf8_lossy(line)
           path == CapturePath(line_str, final_file_path)
       IN /\ final_file_path' = path
          /\ emitted' = emitted
                \o (IF Trim(line_str) # <<>>
                    THEN <<Emit(EVENT_DOWNLOAD_PROGRESS, line_str)>> ELSE <<>>)
                \o (IF path # final_file_path
                    THEN <<Emit(EVENT_DOWNLOAD_COMPLETE, path)>> ELSE <<>>)
    /\ UNCHANGED <<dpc, dret, rx, otherVars>>

\* the arm CommandEvent::Stdout(line)
RecvStdout(line) ==
    /\ dpc = "listening"
    /\ rx = "open"
    /\ Delivered < MaxEvents
    /\ received' = Append(received, Event("Stdout", line, ""))
    /\ LET line_str == from_utf8_lossy(line) IN
       /\ final_file_path' = CapturePath(line_str, final_file_path)
       /\ emitted' = IF Trim(line_str) # <<>>
                     THEN Append(emitted, Emit(EVENT_DOWNLOAD_PROGRESS, line_str))
                     ELSE emitted
    /\ UNCHANGED <<dpc, dret, rx, otherVars>>

\* the arm CommandEvent::Stderr(line) that forwards the line and does not
\* look for a destination
RecvStderr_NoCapture(line) ==
    /\ dpc = "listening"
    /\ rx = "open"
    /\ Delivered < MaxEvents
    /\ received' = Append(received, Event("Stderr", line, ""))
    /\ LET line_str == from_utf8_lossy(line) IN
       emitted' = IF Trim(line_str) # <<>>
                  THEN Append(emitted, Emit(EVENT_DOWNLOAD_PROGRESS, line_str))
                  ELSE emitted
    /\ UNCHANGED <<dpc, final_file_path, dret, rx, otherVars>>

\* the arm CommandEvent::Stderr(line) with its event put ahead of the events
\* emitted so far
RecvStderr_Prepends(line) ==
    /\ dpc = "listening"
    /\ rx = "open"
    /\ Delivered < MaxEvents
    /\ received' = Append(received, Event("Stderr", line, ""))
    /\ LET line_str == from_utf8_lossy(line) IN
       /\ final_file_path' = CapturePath(line_str, final_file_path)
       /\ emitted' = IF Trim(line_str) # <<>>
                     THEN <<Emit(EVENT_DOWNLOAD_PROGRESS, line_str)>> \o emitted
                     ELSE emitted
    /\ UNCHANGED <<dpc, dret, rx, otherVars>>

\* the arm CommandEvent::Stderr(line)
RecvStderr(line) ==
    /\ dpc = "listening"
    /\ rx = "open"
    /\ Delivered < MaxEvents
    /\ received' = Append(received, Event("Stderr", line, ""))
    /\ LET line_str == from_utf8_lossy(line) IN
       /\ final_file_path' = CapturePath(line_str, final_file_path)
       /\ emitted' = IF Trim(line_str) # <<>>
                     THEN Append(emitted, Emit(EVENT_DOWNLOAD_PROGRESS, line_str))
                     ELSE emitted
    /\ UNCHANGED <<dpc, dret, rx, otherVars>>

\* the arm CommandEvent::Terminated(status) with every exit code but Some(0)
\* taken for a success
RecvTerminated_AnyCodeOk(code) ==
    /\ dpc = "listening"
    /\ rx = "open"
    /\ ~Seen("Terminated")
    /\ received' = Append(received, Event("Terminated", NoText, code))
    /\ emitted' = emitted
                  \o (IF final_file_path # NoText
                      THEN <<Emit(EVENT_DOWNLOAD_COMPLETE, final_file_path)>> ELSE <<>>)
                  \o <<Emit(EVENT_DOWNLOAD_PROGRESS, CompletedNotice)>>
    /\ UNCHANGED <<dpc, final_file_path, dret, rx, otherVars>>

\* the arm CommandEvent::Terminated(status) with the completion notice emitted
\* before the download-complete event
RecvTerminated_NoticeFirst(code) ==
    /\ dpc = "listening"
    /\ rx = "open"
    /\ ~Seen("Terminated")
    /\ received' = Append(received, Event("Terminated", NoText, code))
    /\ emitted' = IF code = "Some(0)"
                  THEN emitted
                       \o <<Emit(EVENT_DOWNLOAD_PROGRESS, CompletedNotice)>>
                       \o (IF final_file_path # NoText
                           THEN <<Emit(EVENT_DOWNLOAD_COMPLETE, final_file_path)>> ELSE <<>>)
                  ELSE Append(emitted, Emit(EVENT_DOWNLOAD_PROGRESS, ErrorNotice(code)))
    /\ UNCHANGED <<dpc, final_file_path, dret, rx, otherVars>>

\* the arm CommandEvent::Terminated(status); the process terminates once
RecvTerminated(code) ==
    /\ dpc = "listening"
    /\ rx = "open"
    /\ ~Seen("Terminated")
    /\ received' = Append(received, Event("Terminated", NoText, code))
    /\ emitted' = IF code = "Some(0)"
                  THEN emitted
                       \o (IF final_file_path # NoText
                           THEN <<Emit(EVENT_DOWNLOAD_COMPLETE, final_file_path)>> ELSE <<>>)
                       \o <<Emit(EVENT_DOWNLOAD_PROGRESS, CompletedNotice)>>
                  ELSE Append(emitted, Emit(EVENT_DOWNLOAD_PROGRESS, ErrorNotice(code)))
    /\ UNCHANGED <<dpc, final_file_path, dret, rx, otherVars>>

\* the arm _ => {}: CommandEvent::Error (a read of the output or the wait
\* for the process failed)
RecvOther ==
    /\ dpc = "listening"
    /\ rx = "open"
    /\ Delivered < MaxEvents
    /\ received' = Append(received, Event("Error", NoText, ""))
    /\ UNCHANGED <<dpc, final_file_path, emitted, dret, rx, otherVars>>

\* the process has ended (or the wait for it failed) and the senders of the
\* channel are dropped, every event having been received
CloseChannel ==
    /\ rx = "open"
    /\ Seen("Terminated") \/ Seen("Error")
    /\ rx' = "closed"
    /\ UNCHANGED <<dpc, final_file_path, emitted, received, dret, otherVars>>

\* the return with an error when no path was captured
ChannelClosed_ErrWithoutPath ==
    /\ dpc = "listening"
    /\ rx = "closed"
    /\ dpc' = "returned"
    /\ dret' = IF final_file_path # NoText THEN DlOk(final_file_path) ELSE DlErr("LOGIC")
    /\ UNCHANGED <<final_file_path, emitted, received, rx, otherVars>>

\* the loop that gives up waiting for the process after the events received
ChannelClosed_GivesUp ==
    /\ dpc = "listening"
    /\ received # <<>>
    /\ dpc' = "returned"
    /\ dret' = DlOk(IF final_file_path # NoText THEN final_file_path ELSE Fallback)
    /\ UNCHANGED <<final_file_path, emitted, received, rx, otherVars>>

\* rx.recv() answers None on the closed channel: the loop ends and
\* download_video returns
ChannelClosed ==
    /\ dpc = "listening"
    /\ rx = "closed"
    /\ dpc' = "returned"
    /\ dret' = DlOk(IF final_file_path # NoText THEN final_file_path ELSE Fallback)
    /\ UNCHANGED <<final_file_path, emitted, received, rx, otherVars>>

-----------------------------------------------------------------------------
(* The environment *)

\* the binaries directory before the invocation: a first installation, a
\* complete one, and one that lost its last binary
InitialInstalls ==
    {[b \in Binaries |-> Absent],
     [b \in Binaries |-> Old],
     [b \in Binaries |-> IF b = ENGINE_BINARIES[Len(ENGINE_BINARIES)] THEN Absent ELSE Old]}

NoScratch == [exists |-> FALSE, nodes |-> {}]

\* what an invocation that failed after its download leaves behind
StaleData(p) == <<"stale">> \o p
StaleScratch ==
    [exists |-> TRUE,
     nodes |-> {FileNode(ZIP_NAME, StaleZip), DirNode(EXTRACT_DIR),
                FileNode(EXTRACT_DIR \o <<ENGINE_BINARIES[1]>>,
                         StaleData(<<ENGINE_BINARIES[1]>>))}]

\* another process opens engine binary b (a download starts to run it, a
\* scanner reads it)
LockBinary(b) ==
    /\ b \notin locked
    /\ binContent[b] # Absent
    /\ Cardinality(locked) < MaxLocked
    /\ locked' = locked \cup {b}
    /\ UNCHANGED <<binContent, scratch, pipeVars, ops, copyVars>>

UnlockBinary(b) ==
    /\ b \in locked
    /\ locked' = locked \ {b}
    /\ UNCHANGED <<binContent, scratch, pipeVars, ops, copyVars>>

-----------------------------------------------------------------------------
(* copy_with_retry(source, target, max_retries), utils/zip.rs *)

CopyOk == [ok |-> TRUE, kind |-> "OK", err |-> NoError]
CopyErr(kind, e) == [ok |-> FALSE, kind |-> kind, err |-> e]
NoCopyRet == [ok |-> FALSE, kind |-> "NONE", err |-> NoError]

CopyIdle ==
    /\ cpc = "idle"
    /\ source = NoPath
    /\ target = ""
    /\ max_retries = 0
    /\ attempt = 0
    /\ last_error = NoError
    /\ copyRet = NoCopyRet
    /\ copyLog = <<>>

\* the call has returned to its caller: its locals are gone
CopyReset ==
    /\ cpc' = "idle"
    /\ source' = NoPath
    /\ target' = ""
    /\ max_retries' = 0
    /\ attempt' = 0
    /\ last_error' = NoError
    /\ copyRet' = NoCopyRet
    /\ copyLog' = <<>>

\* copy_with_retry with a copy that writes the target whatever holds it
CopyAttempt_WritesThrough ==
    /\ cpc = "loop"
    /\ attempt < max_retries
    /\ copyLog' = Append(copyLog, Op("copy", target, 0))
    /\ binContent' = [binContent EXCEPT ![target] = DataAt(scratch.nodes, source)]
    /\ cpc' = "ret"
    /\ copyRet' = CopyOk
    /\ UNCHANGED <<locked, scratch, pipeVars, ops, source, target, max_retries, attempt,
                   last_error>>

\* copy_with_retry with the test of the range after the body: the first
\* attempt is made whatever max_retries is
CopyAttempt_AtLeastOnce ==
    /\ cpc = "loop"
    /\ IF attempt > 0 /\ attempt >= max_retries
       THEN \* the range 0..max_retries is empty: last_error is None
            /\ cpc' = "ret"
            /\ copyRet' = IF last_error = NoError
                          THEN CopyErr("LOGIC", NoError)
                          ELSE CopyErr("IO", last_error)
            /\ UNCHANGED <<binContent, last_error, copyLog>>
       ELSE \E ans \in CopyAnswers(target) :
            /\ copyLog' = Append(copyLog, Op("copy", target, ans.code))
            /\ IF ans = IoOk
               THEN /\ binContent' = [binContent EXCEPT ![target] = DataAt(scratch.nodes, source)]
                    /\ cpc' = "ret"
                    /\ copyRet' = CopyOk
                    /\ UNCHANGED last_error
               ELSE /\ last_error' = ans
                    \* a copy that fails while writing leaves a truncated target
                    /\ \/ binContent' = binContent
                       \/ /\ ans \notin LockErrors
                          /\ binContent' = [binContent EXCEPT ![target] = Truncated]
                    /\ IF IsSharingViolation(ans) /\ attempt < max_retries - 1
                       THEN cpc' = "sleep" /\ UNCHANGED copyRet
                       ELSE cpc' = "ret" /\ copyRet' = CopyErr("IO", ans)
    /\ UNCHANGED <<locked, scratch, pipeVars, ops, source, target, max_retries, attempt>>

\* the head of the for loop and one fs::copy(source, target)
CopyAttempt ==
    /\ cpc = "loop"
    /\ IF attempt >= max_retries
       THEN \* the range 0..max_retries is empty: last_error is None
            /\ cpc' = "ret"
            /\ copyRet' = IF last_error = NoError
                          THEN CopyErr("LOGIC", NoError)
                          ELSE CopyErr("IO", last_error)
            /\ UNCHANGED <<binContent, last_error, copyLog>>
       ELSE \E ans \in CopyAnswers(target) :
            /\ copyLog' = Append(copyLog, Op("copy", target, ans.code))
            /\ IF ans = IoOk
               THEN /\ binContent' = [binContent EXCEPT ![target] = DataAt(scratch.nodes, source)]
                    /\ cpc' = "ret"
                    /\ copyRet' = CopyOk
                    /\ UNCHANGED last_error
               ELSE /\ last_error' = ans
                    \* a copy that fails while writing leaves a truncated target
                    /\ \/ binContent' = binContent
                       \/ /\ ans \notin LockErrors
                          /\ binContent' = [binContent EXCEPT ![target] = Truncated]
                    /\ IF IsSharingViolation(ans) /\ attempt < max_retries - 1
                       THEN cpc' = "sleep" /\ UNCHANGED copyRet
                       ELSE cpc' = "ret" /\ copyRet' = CopyErr("IO", ans)
    /\ UNCHANGED <<locked, scratch, pipeVars, ops, source, target, max_retries, attempt>>

\* the sleep followed by a second attempt of the same iteration: the loop
\* variable does not advance
CopySleep_SameAttempt ==
    /\ cpc = "sleep"
    /\ attempt' = attempt
    /\ cpc' = "loop"
    /\ copyLog' = Append(copyLog, Op("sleep", target, RETRY_SLEEP_MS))
    /\ UNCHANGED <<envVars, pipeVars, ops, source, target, max_retries, last_error, copyRet>>

\* std::thread::sleep(500 ms); continue
CopySleep ==
    /\ cpc = "sleep"
    /\ attempt' = attempt + 1
    /\ cpc' = "loop"
    /\ copyLog' = Append(copyLog, Op("sleep", target, RETRY_SLEEP_MS))
    /\ UNCHANGED <<envVars, pipeVars, ops, source, target, max_retries, last_error, copyRet>>

-----------------------------------------------------------------------------
(* install_engine_update(url), commands/engine.rs *)

Urls == {"", "https://host/engine.zip"}

Finished(r) ==
    /\ result' = r
    /\ pc' = "done"

\* install_engine_update without the test of step 0
Invoke_NoValidation(u) ==
    /\ pc = "idle"
    /\ url' = u
    /\ pc' = "resolve"
    /\ UNCHANGED <<envVars, binaries_dir, idx, bytes, updated_count, errors, result, ops,
                   copyVars>>

\* Step 0: validate the URL
Invoke(u) ==
    /\ pc = "idle"
    /\ url' = u
    /\ IF u = ""
       THEN Finished(Err("LOGIC", "NoUrl"))
       ELSE pc' = "resolve" /\ UNCHANGED result
    /\ UNCHANGED <<envVars, binaries_dir, idx, bytes, updated_count, errors, ops, copyVars>>

\* Step 1: resolve the target directory, and create it when it is missing
ResolveDir ==
    /\ pc = "resolve"
    /\ \E env \in RunEnvironments, exists \in BOOLEAN, created \in BOOLEAN :
         LET r == resolve_binaries_dir(env) IN
         /\ (\E b \in Binaries : binContent[b] # Absent) => exists
         /\ exists => created
         /\ IF ~r.ok
            THEN /\ Finished(Err(r.kind, "Resolve"))
                 /\ exists /\ created
                 /\ ops' = Append(ops, Op("resolve", "", 0))
                 /\ UNCHANGED <<binaries_dir, idx>>
            ELSE /\ binaries_dir' = r.dir
                 /\ ops' = ops \o <<Op("resolve", "", 0)>>
                           \o (IF exists THEN <<>> ELSE <<Op("mkdir_bin", "", 0)>>)
                 /\ IF created
                    THEN pc' = "probe" /\ idx' = 1 /\ UNCHANGED result
                    ELSE Finished(Err("IO", "CreateBinDir")) /\ UNCHANGED idx
    /\ UNCHANGED <<envVars, url, bytes, updated_count, errors, copyVars>>

\* step 2 without the return: a locked binary is noticed and the loop goes on
ProbeLock_NoReturn ==
    /\ pc = "probe"
    /\ LET b == ENGINE_BINARIES[idx]
           exists == binContent[b] # Absent
       IN \E opened \in (IF exists THEN OpenAnswers(b) ELSE {IoOk}) :
          /\ ops' = Append(ops, Op("probe", b, IF is_file_locked(exists, opened) THEN 1 ELSE 0))
          /\ UNCHANGED result
          /\ IF idx < Len(ENGINE_BINARIES)
             THEN idx' = idx + 1 /\ pc' = "probe"
             ELSE idx' = 1 /\ pc' = "scratch"
    /\ UNCHANGED <<envVars, url, binaries_dir, bytes, updated_count, errors, copyVars>>

\* Step 2: one iteration of the loop that probes the binaries for a lock
ProbeLock ==
    /\ pc = "probe"
    /\ LET b == ENGINE_BINARIES[idx]
           exists == binContent[b] # Absent
       IN \E opened \in (IF exists THEN OpenAnswers(b) ELSE {IoOk}) :
          LET isLocked == is_file_locked(exists, opened) IN
          /\ ops' = Append(ops, Op("probe", b, IF isLocked THEN 1 ELSE 0))
          /\ IF isLocked
             THEN Finished(ErrWith("LOGIC", "InUse", 0, <<b>>)) /\ UNCHANGED idx
             ELSE /\ UNCHANGED result
                  /\ IF idx < Len(ENGINE_BINARIES)
                     THEN idx' = idx + 1 /\ pc' = "probe"
                     ELSE idx' = 1 /\ pc' = "scratch"
    /\ UNCHANGED <<envVars, url, binaries_dir, bytes, updated_count, errors, copyVars>>

\* Step 3, first part: remove a stale scratch directory (a failure is
\* ignored) and create the scratch directory
PrepareScratch ==
    /\ pc = "scratch"
    /\ \E removed \in BOOLEAN, created \in BOOLEAN :
         LET afterRm == IF scratch.exists /\ removed THEN NoScratch ELSE scratch IN
         /\ ~scratch.exists => removed
         /\ afterRm.exists => created
         /\ ops' = ops \o (IF scratch.exists THEN <<Op("rm_scratch", "", IF removed THEN 0 ELSE 1)>>
                                             ELSE <<>>)
                       \o <<Op("mk_scratch", "", IF created THEN 0 ELSE 1)>>
         /\ IF created
            THEN /\ scratch' = [afterRm EXCEPT !.exists = TRUE]
                 /\ pc' = "http"
                 /\ UNCHANGED result
            ELSE /\ scratch' = afterRm
                 /\ Finished(Err("IO", "CreateScratch"))
    /\ UNCHANGED <<locked, binContent, url, binaries_dir, idx, bytes, updated_count,
                   errors, copyVars>>

NoBytes == [valid |-> FALSE, entries |-> <<>>]

\* Step 3, second part: build the client, GET the URL, check the status,
\* read the body
HttpGet ==
    /\ pc = "http"
    /\ \/ /\ Finished(Err("LOGIC", "ClientBuild"))
          /\ UNCHANGED <<bytes, ops>>
       \/ /\ ops' = Append(ops, Op("http_get", "", 0))
          /\ \/ Finished(Err("NETWORK", "Send")) /\ UNCHANGED bytes
             \/ Finished(Err("LOGIC", "Status")) /\ UNCHANGED bytes
             \/ Finished(Err("NETWORK", "Body")) /\ UNCHANGED bytes
             \/ \E a \in Archives :
                  /\ bytes' = a
                  /\ pc' = "write"
                  /\ UNCHANGED result
    /\ UNCHANGED <<envVars, url, binaries_dir, idx, updated_count, errors, copyVars>>

\* Step 3, third part: File::create(zip_path) and write_all(bytes)
WriteZip ==
    /\ pc = "write"
    /\ \/ /\ Finished(Err("LOGIC", "CreateZip"))
          /\ ops' = Append(ops, Op("create_zip", "", 1))
          /\ UNCHANGED scratch
       \/ LET w == WriteFile(scratch.nodes, ZIP_NAME, Truncated) IN
          /\ ~w.err
          /\ scratch' = [scratch EXCEPT !.nodes = w.nodes]
          /\ Finished(Err("LOGIC", "WriteZip"))
          /\ ops' = Append(ops, Op("write_zip", "", 1))
       \/ LET w == WriteFile(scratch.nodes, ZIP_NAME, ZipData) IN
          /\ ~w.err
          /\ scratch' = [scratch EXCEPT !.nodes = w.nodes]
          /\ pc' = "extract"
          /\ ops' = Append(ops, Op("write_zip", "", 0))
          /\ UNCHANGED result
    /\ UNCHANGED <<locked, binContent, url, binaries_dir, idx, bytes, updated_count,
                   errors, copyVars>>

\* step 4 extracting over the installed binaries instead of the scratch
\* directory: what has been extracted when it stops is installed
ExtractZip_InPlace ==
    /\ pc = "extract"
    /\ \E out \in extract_zip(scratch.nodes, bytes) :
         /\ scratch' = [scratch EXCEPT !.nodes = out.nodes]
         /\ binContent' = [b \in Binaries |->
                LET found == find_file_recursive(out.nodes, EXTRACT_DIR, b) IN
                IF found = {} THEN binContent[b]
                ELSE DataAt(out.nodes, CHOOSE f \in found : TRUE)]
         /\ ops' = Append(ops, Op("extract", out.err, IF out.err = "" THEN 0 ELSE 1))
         /\ IF out.err = ""
            THEN /\ pc' = "find"
                 /\ idx' = 1
                 /\ updated_count' = 0
                 /\ errors' = <<>>
                 /\ UNCHANGED result
            ELSE /\ Finished(Err(out.err, "Extract"))
                 /\ UNCHANGED <<idx, updated_count, errors>>
    /\ UNCHANGED <<locked, url, binaries_dir, bytes, copyVars>>

\* Step 4: extract_zip(zip_path, extract_dir)
ExtractZip ==
    /\ pc = "extract"
    /\ \E out \in extract_zip(scratch.nodes, bytes) :
         /\ scratch' = [scratch EXCEPT !.nodes = out.nodes]
         /\ ops' = Append(ops, Op("extract", out.err, IF out.err = "" THEN 0 ELSE 1))
         /\ IF out.err = ""
            THEN /\ pc' = "find"
                 /\ idx' = 1
                 /\ updated_count' = 0
                 /\ errors' = <<>>
                 /\ UNCHANGED result
            ELSE /\ Finished(Err(out.err, "Extract"))
                 /\ UNCHANGED <<idx, updated_count, errors>>
    /\ UNCHANGED <<locked, binContent, url, binaries_dir, bytes, copyVars>>

\* the end of one iteration of the loop of step 5
NextBinary ==
    IF idx < Len(ENGINE_BINARIES)
    THEN idx' = idx + 1 /\ pc' = "find"
    ELSE idx' = idx /\ pc' = "cleanup"

\* Step 5: search the extracted tree for the binary and call copy_with_retry
FindBinary ==
    /\ pc = "find"
    /\ LET b == ENGINE_BINARIES[idx]
           found == find_file_recursive(scratch.nodes, EXTRACT_DIR, b)
       IN /\ ops' = Append(ops, Op("find", b, IF found = {} THEN 0 ELSE 1))
          /\ IF found = {}
             THEN /\ NextBinary
                  /\ UNCHANGED copyVars
             ELSE \E s \in found :
                  /\ source' = s
                  /\ target' = b
                  /\ max_retries' = COPY_MAX_RETRIES
                  /\ attempt' = 0
                  /\ last_error' = NoError
                  /\ copyRet' = NoCopyRet
                  /\ copyLog' = <<>>
                  /\ cpc' = "loop"
                  /\ pc' = "copying"
                  /\ UNCHANGED idx
    /\ UNCHANGED <<envVars, url, binaries_dir, bytes, updated_count, errors, result>>

\* AfterCopy where the first failed copy ends the loop
AfterCopy_StopsAtFailure ==
    /\ pc = "copying"
    /\ cpc = "ret"
    /\ IF copyRet.ok
       THEN updated_count' = updated_count + 1 /\ UNCHANGED errors /\ NextBinary
       ELSE /\ errors' = Append(errors, ENGINE_BINARIES[idx])
            /\ UNCHANGED <<updated_count, idx>>
            /\ pc' = "cleanup"
    /\ ops' = Append(ops, Op("copy_with_retry", ENGINE_BINARIES[idx], IF copyRet.ok THEN 0 ELSE 1))
    /\ CopyReset
    /\ UNCHANGED <<envVars, url, binaries_dir, bytes, result>>

\* Step 5: the match on the value copy_with_retry returned
AfterCopy ==
    /\ pc = "copying"
    /\ cpc = "ret"
    /\ IF copyRet.ok
       THEN updated_count' = updated_count + 1 /\ UNCHANGED errors
       ELSE \* errors.push(format!("{}: {}", binary_name, e)): the entry is
            \* modelled by the name of its binary
            /\ errors' = Append(errors, ENGINE_BINARIES[idx])
            /\ UNCHANGED updated_count
    /\ ops' = Append(ops, Op("copy_with_retry", ENGINE_BINARIES[idx], IF copyRet.ok THEN 0 ELSE 1))
    /\ NextBinary
    /\ CopyReset
    /\ UNCHANGED <<envVars, url, binaries_dir, bytes, result>>

\* the result computed from the count alone, the failed copies forgotten
Finish_IgnoresErrors ==
    /\ pc = "cleanup"
    /\ \E removed \in BOOLEAN :
         /\ scratch' = IF removed THEN NoScratch ELSE scratch
         /\ ops' = Append(ops, Op("cleanup", "", IF removed THEN 0 ELSE 1))
    /\ Finished(IF updated_count = 0
                THEN Err("LOGIC", "NoBinaries")
                ELSE Ok("Updated", updated_count))
    /\ UNCHANGED <<locked, binContent, url, binaries_dir, idx, bytes, updated_count,
                   errors, copyVars>>

\* Steps 6 and 7: remove the scratch directory (a failure is ignored) and
\* return the result
Finish ==
    /\ pc = "cleanup"
    /\ \E removed \in BOOLEAN :
         /\ scratch' = IF removed THEN NoScratch ELSE scratch
         /\ ops' = Append(ops, Op("cleanup", "", IF removed THEN 0 ELSE 1))
    /\ Finished(IF errors # <<>>
                THEN ErrWith("LOGIC", "Partial", updated_count,
                             errors)
                ELSE IF updated_count = 0
                THEN Err("LOGIC", "NoBinaries")
                ELSE Ok("Updated", updated_count))
    /\ UNCHANGED <<locked, binContent, url, binaries_dir, idx, bytes, updated_count,
                   errors, copyVars>>

-----------------------------------------------------------------------------
(* install_engine_update as lib.rs inlines it, with its find_file_recursive *)
(* and copy_with_retry.  Each step is a function of the state of the        *)
(* invocation and of what the environment answers.  The build is the one    *)
(* for Windows: the #[cfg(unix)] block of utils/zip.rs is not compiled.     *)

\* the text of the underlying error, the status of the response and the
\* count, where a message is formatted with them
ERROR_TEXT == "{e}"
STATUS_TEXT == "{status}"
COUNT_TEXT == "{count}"

\* a message: its text, the count formatted into it, and the entries of the
\* failed binaries joined into it
Msg(text, n, detail) == [text |-> text, count |-> n, detail |-> detail]

\* Result<String, String>
InlineOk(m) == [ok |-> TRUE, message |-> m]
InlineErr(text) == [ok |-> FALSE, message |-> Msg(text, 0, <<>>)]
NoInlineResult == [ok |-> FALSE, message |-> Msg(<<>>, 0, <<>>)]

InlineStart(installed, tmpdir) ==
    [pc |-> "idle", url |-> "", binaries_dir |-> NoDir, idx |-> 1, bytes |-> NoBytes,
     updated_count |-> 0, errors |-> <<>>, result |-> NoInlineResult, ops |-> <<>>,
     binContent |-> installed, scratch |-> tmpdir,
     cpc |-> "idle", source |-> NoPath, target |-> "", max_retries |-> 0, attempt |-> 0,
     last_error |-> NoError, copyRet |-> NoCopyRet, copyLog |-> <<>>]

\* not invoked
NoInline == InlineStart([b \in Binaries |-> Absent], NoScratch)

InlineReturn(st, r) == [st EXCEPT !.pc = "done", !.result = r]

InlineLog(st, entries) == [st EXCEPT !.ops = st.ops \o entries]

\* Step 0
InlineInvoke(st, u) ==
    IF u = ""
    THEN InlineReturn([st EXCEPT !.url = u], InlineErr(<<"No update URL provided.">>))
    ELSE [st EXCEPT !.url = u, !.pc = "resolve"]

\* Step 1: r is what resolve_binaries_dir returns
InlineResolveDir(st, r, exists, created) ==
    IF ~r.ok
    THEN InlineReturn(InlineLog(st, <<Op("resolve", "", 0)>>),
                      InlineErr(IF r.kind = "IO"
                                THEN <<"Failed to get current executable path: ", ERROR_TEXT>>
                                ELSE <<"Failed to get executable directory">>))
    ELSE LET logged == InlineLog([st EXCEPT !.binaries_dir = r.dir],
                                 <<Op("resolve", "", 0)>>
                                 \o (IF exists THEN <<>> ELSE <<Op("mkdir_bin", "", 0)>>))
         IN  IF exists \/ created
             THEN [logged EXCEPT !.pc = "probe", !.idx = 1]
             ELSE InlineReturn(logged,
                               InlineErr(<<"Failed to create binaries directory: ", ERROR_TEXT>>))

\* Step 2: one iteration; isLocked is what is_file_locked returns
InlineProbeLock(st, isLocked) ==
    LET b == ENGINE_BINARIES[st.idx]
        logged == InlineLog(st, <<Op("probe", b, IF isLocked THEN 1 ELSE 0)>>)
    IN  IF isLocked
        THEN InlineReturn(logged,
                 InlineErr(<<"Cannot update: ", b,
                             " is currently in use. Please stop any active downloads and try again.">>))
        ELSE IF st.idx < Len(ENGINE_BINARIES)
        THEN [logged EXCEPT !.idx = st.idx + 1]
        ELSE [logged EXCEPT !.idx = 1, !.pc = "scratch"]

\* Step 3, first part
InlinePrepareScratch(st, removed, created) ==
    LET afterRm == IF st.scratch.exists /\ removed THEN NoScratch ELSE st.scratch
        logged  == InlineLog(st, (IF st.scratch.exists
                                  THEN <<Op("rm_scratch", "", IF removed THEN 0 ELSE 1)>>
                                  ELSE <<>>)
                                 \o <<Op("mk_scratch", "", IF created THEN 0 ELSE 1)>>)
    IN  IF created
        THEN [logged EXCEPT !.scratch = [afterRm EXCEPT !.exists = TRUE], !.pc = "http"]
        ELSE InlineReturn([logged EXCEPT !.scratch = afterRm],
                          InlineErr(<<"Failed to create temp directory: ", ERROR_TEXT>>))

\* Step 3, second part: reqwest::blocking::get builds its client, sends the
\* request and returns the first error; then the status and the body
InlineHttpGet(st, outcome, a) ==
    IF outcome = "ClientBuild"
    THEN InlineReturn(st, InlineErr(<<"Failed to download engine update: ", ERROR_TEXT>>))
    ELSE LET logged == InlineLog(st, <<Op("http_get", "", 0)>>) IN
         IF outcome = "Send"
         THEN InlineReturn(logged, InlineErr(<<"Failed to download engine update: ", ERROR_TEXT>>))
         ELSE IF outcome = "Status"
         THEN InlineReturn(logged, InlineErr(<<"Download failed with status: ", STATUS_TEXT>>))
         ELSE IF outcome = "Body"
         THEN InlineReturn(logged, InlineErr(<<"Failed to read download response: ", ERROR_TEXT>>))
         ELSE [logged EXCEPT !.bytes = a, !.pc = "write"]

\* Step 3, third part
InlineWriteZip(st, outcome) ==
    IF outcome = "create"
    THEN InlineReturn(InlineLog(st, <<Op("create_zip", "", 1)>>),
                      InlineErr(<<"Failed to create temp ZIP file: ", ERROR_TEXT>>))
    ELSE LET data == IF outcome = "write" THEN Truncated ELSE ZipData
             w == WriteFile(st.scratch.nodes, ZIP_NAME, data)
             written == InlineLog([st EXCEPT !.scratch.nodes = w.nodes],
                                  <<Op("write_zip", "", IF outcome = "write" THEN 1 ELSE 0)>>)
         IN  IF outcome = "write"
             THEN InlineReturn(written, InlineErr(<<"Failed to write ZIP file: ", ERROR_TEXT>>))
             ELSE [written EXCEPT !.pc = "extract"]

\* Step 4: one iteration of the loop over the entries of the archive
InlineExtractEntry(nodes, e) ==
    LET outpath == EXTRACT_DIR \o e.path IN
    IF ~HasEnclosedName(e) THEN [nodes |-> nodes, err |-> FALSE, text |-> <<>>]
    ELSE IF e.isdir
    THEN LET made == CreateDirAll(nodes, outpath) IN
         [nodes |-> made.nodes, err |-> made.err,
          text |-> IF made.err THEN <<"Failed to create directory: ", ERROR_TEXT>> ELSE <<>>]
    ELSE LET made == IF ExistsAt(nodes, Parent(outpath))
                     THEN [nodes |-> nodes, err |-> FALSE]
                     ELSE CreateDirAll(nodes, Parent(outpath))
             w == WriteFile(made.nodes, outpath, e.data)
         IN  IF made.err
             THEN [nodes |-> made.nodes, err |-> TRUE,
                   text |-> <<"Failed to create parent directory: ", ERROR_TEXT>>]
             ELSE [nodes |-> w.nodes, err |-> w.err,
                   text |-> IF w.err THEN <<"Failed to create output file: ", ERROR_TEXT>>
                            ELSE <<>>]

\* the loop over the first n entries
RECURSIVE InlineExtractEntries(_, _, _)
InlineExtractEntries(nodes, entries, n) ==
    IF n = 0 THEN [nodes |-> nodes, err |-> FALSE, text |-> <<>>]
    ELSE LET prev == InlineExtractEntries(nodes, entries, n - 1) IN
         IF prev.err THEN prev ELSE InlineExtractEntry(prev.nodes, entries[n])

\* the I/O operations of an entry, by the message of their failure
IoOperations(e) ==
    IF e.isdir THEN {"Failed to create directory: "}
    ELSE {"Failed to create parent directory: ", "Failed to create output file: ",
          "Failed to extract file: "}

\* Step 4, with the failure at point p of operation op
InlineExtract(st, p, op) ==
    LET made == CreateDirAll(st.scratch.nodes, EXTRACT_DIR)
        n    == Len(st.bytes.entries)
        run  == InlineExtractEntries(made.nodes, st.bytes.entries,
                                     IF p.step \in {"by_index", "io"} THEN p.f - 1 ELSE n)
        out  == IF p.step = "create_dir_all" \/ made.err
                THEN [nodes |-> st.scratch.nodes, err |-> "IO",
                      text |-> <<"Failed to create extraction directory: ", ERROR_TEXT>>]
                ELSE IF p.step = "open"
                THEN [nodes |-> made.nodes, err |-> "IO",
                      text |-> <<"Failed to open ZIP file: ", ERROR_TEXT>>]
                ELSE IF ~st.bytes.valid
                THEN [nodes |-> made.nodes, err |-> "ZIP",
                      text |-> <<"Invalid ZIP file: ", ERROR_TEXT>>]
                ELSE IF p.step = "none"
                THEN [nodes |-> run.nodes, err |-> IF run.err THEN "IO" ELSE "",
                      text |-> run.text]
                ELSE IF p.step = "by_index"
                THEN [nodes |-> run.nodes, err |-> "ZIP",
                      text |-> IF run.err THEN run.text
                               ELSE <<"Failed to read ZIP entry: ", ERROR_TEXT>>]
                ELSE [nodes |-> run.nodes, err |-> "IO",
                      text |-> IF run.err THEN run.text ELSE <<op, ERROR_TEXT>>]
        logged == InlineLog([st EXCEPT !.scratch.nodes = out.nodes],
                            <<Op("extract", out.err, IF out.err = "" THEN 0 ELSE 1)>>)
    IN  IF out.err = ""
        THEN [logged EXCEPT !.pc = "find", !.idx = 1, !.updated_count = 0, !.errors = <<>>]
        ELSE InlineReturn(logged, InlineErr(out.text))

\* the end of one iteration of the loop of step 5
InlineNextBinary(st) ==
    IF st.idx < Len(ENGINE_BINARIES)
    THEN [st EXCEPT !.idx = st.idx + 1, !.pc = "find"]
    ELSE [st EXCEPT !.pc = "cleanup"]

\* Step 5: find_file_recursive, and the call of copy_with_retry(.., 3); first
\* is the match the order of the directory's entries puts first
InlineFindBinary(st, first_match) ==
    LET b == ENGINE_BINARIES[st.idx]
        found == find_file_recursive(st.scratch.nodes, EXTRACT_DIR, b)
        logged == InlineLog(st, <<Op("find", b, IF found = {} THEN 0 ELSE 1)>>)
    IN  IF found = {} THEN InlineNextBinary(logged)
        ELSE [logged EXCEPT !.source = IF first_match \in found THEN first_match
                                       ELSE CHOOSE f \in found : TRUE,
                            !.target = b,
                            !.max_retries = COPY_MAX_RETRIES,
                            !.attempt = 0,
                            !.last_error = NoError,
                            !.copyRet = NoCopyRet,
                            !.copyLog = <<>>,
                            !.cpc = "loop",
                            !.pc = "copying"]

\* copy_with_retry of lib.rs returning at the first failed attempt, whatever
\* its code
InlineCopyAttempt_NoRetry(st, ans, truncated) ==
    IF st.attempt >= st.max_retries
    THEN [st EXCEPT !.cpc = "ret", !.copyRet = CopyErr("STRING", st.last_error)]
    ELSE LET logged == [st EXCEPT !.copyLog = Append(st.copyLog, Op("copy", st.target, ans.code))]
         IN  IF ans = IoOk
             THEN [logged EXCEPT !.binContent[st.target] = DataAt(st.scratch.nodes, st.source),
                                 !.cpc = "ret",
                                 !.copyRet = CopyOk]
             ELSE LET failed == [logged EXCEPT
                                   !.last_error = ans,
                                   !.binContent[st.target] =
                                       IF truncated THEN Truncated ELSE st.binContent[st.target]]
                  IN  [failed EXCEPT !.cpc = "ret", !.copyRet = CopyErr("STRING", ans)]

\* copy_with_retry of lib.rs: the head of the loop and one fs::copy; ans is
\* what fs::copy answers, truncated whether it left the target truncated
InlineCopyAttempt(st, ans, truncated) ==
    IF st.attempt >= st.max_retries
    THEN [st EXCEPT !.cpc = "ret", !.copyRet = CopyErr("STRING", st.last_error)]
    ELSE LET logged == [st EXCEPT !.copyLog = Append(st.copyLog, Op("copy", st.target, ans.code))]
         IN  IF ans = IoOk
             THEN [logged EXCEPT !.binContent[st.target] = DataAt(st.scratch.nodes, st.source),
                                 !.cpc = "ret",
                                 !.copyRet = CopyOk]
             ELSE LET failed == [logged EXCEPT
                                   !.last_error = ans,
                                   !.binContent[st.target] =
                                       IF truncated THEN Truncated ELSE st.binContent[st.target]]
                  IN  IF /\ ans.code \in {ERROR_SHARING_VIOLATION, ERROR_LOCK_VIOLATION}
                         /\ st.attempt < st.max_retries - 1
                      THEN [failed EXCEPT !.cpc = "sleep"]
                      ELSE [failed EXCEPT !.cpc = "ret", !.copyRet = CopyErr("STRING", ans)]

\* std::thread::sleep(500 ms); continue
InlineCopySleep(st) ==
    [st EXCEPT !.attempt = st.attempt + 1,
               !.cpc = "loop",
               !.copyLog = Append(st.copyLog, Op("sleep", st.target, RETRY_SLEEP_MS))]

\* Step 5: the match on the value copy_with_retry returned; the call is over
InlineAfterCopy(st) ==
    LET b == ENGINE_BINARIES[st.idx]
        counted == IF st.copyRet.ok
                   THEN [st EXCEPT !.updated_count = st.updated_count + 1]
                   ELSE [st EXCEPT !.errors = Append(st.errors, <<b, ": ", ERROR_TEXT>>)]
        logged == InlineLog(counted, <<Op("copy_with_retry", b, IF st.copyRet.ok THEN 0 ELSE 1)>>)
    IN  [InlineNextBinary(logged) EXCEPT
            !.cpc = "idle", !.source = NoPath, !.target = "", !.max_retries = 0,
            !.attempt = 0, !.last_error = NoError, !.copyRet = NoCopyRet, !.copyLog = <<>>]

\* Steps 6 and 7
InlineFinish(st, removed) ==
    LET cleaned == InlineLog([st EXCEPT !.scratch = IF removed THEN NoScratch ELSE st.scratch],
                             <<Op("cleanup", "", IF removed THEN 0 ELSE 1)>>)
    IN  InlineReturn(cleaned,
            IF st.errors # <<>>
            THEN [ok |-> FALSE,
                  message |-> Msg(<<"Updated ", COUNT_TEXT, " binaries, but some failed: ">>,
                                  st.updated_count, st.errors)]
            ELSE IF st.updated_count = 0
            THEN InlineErr(<<"No engine binaries found in the update package.">>)
            ELSE InlineOk(Msg(<<"Engine V12 updated successfully! ", COUNT_TEXT,
                                " binaries installed.">>,
                              st.updated_count, <<>>)))

-----------------------------------------------------------------------------
(* The update pipeline, with the processes that lock the binaries *)

Init ==
    /\ locked = {}
    /\ binContent \in InitialInstalls
    /\ scratch \in {NoScratch, StaleScratch}
    /\ pc = "idle"
    /\ url = ""
    /\ binaries_dir = NoDir
    /\ idx = 1
    /\ bytes = NoBytes
    /\ updated_count = 0
    /\ errors = <<>>
    /\ result = NoResult
    /\ ops = <<>>
    /\ CopyIdle
    /\ DownloadIdle
    /\ BitrateIdle
    /\ OverlapIdle
    /\ ResolveIdle
    /\ ProbeIdle
    /\ RunsIdle
    /\ run1 = NoRun1
    /\ tally = NoTally
    /\ inl = NoInline

Next ==
    \/ (\E u \in Urls : Invoke(u)) /\ UNCHANGED dlVars
    \/ ResolveDir /\ UNCHANGED dlVars
    \/ ProbeLock /\ UNCHANGED dlVars
    \/ PrepareScratch /\ UNCHANGED dlVars
    \/ HttpGet /\ UNCHANGED dlVars
    \/ WriteZip /\ UNCHANGED dlVars
    \/ ExtractZip /\ UNCHANGED dlVars
    \/ FindBinary /\ UNCHANGED dlVars
    \/ CopyAttempt /\ UNCHANGED dlVars
    \/ CopySleep /\ UNCHANGED dlVars
    \/ AfterCopy /\ UNCHANGED dlVars
    \/ Finish /\ UNCHANGED dlVars
    \/ (\E b \in Binaries : LockBinary(b)) /\ UNCHANGED dlVars
    \/ (\E b \in Binaries : UnlockBinary(b)) /\ UNCHANGED dlVars

Spec == Init /\ [][Next]_vars

-----------------------------------------------------------------------------
(* Properties of the update pipeline *)

Did(name) == \E k \in 1..Len(ops) : ops[k].op = name
DidOk(name) == \E k \in 1..Len(ops) : ops[k].op = name /\ ops[k].code = 0
DidFailed(name) == \E k \in 1..Len(ops) : ops[k].op = name /\ ops[k].code # 0

\* the names of the file entries of archive a, and the entries extract_zip
\* does not skip
EntriesNamed(a, b) ==
    {a.entries[k] : k \in {j \in 1..Len(a.entries) :
                             ~a.entries[j].isdir /\ FileName(a.entries[j].path) = b}}
EnclosedEntriesNamed(a, b) == {e \in EntriesNamed(a, b) : HasEnclosedName(e)}

\* C1: an invocation that created the scratch directory has removed it when
\* it returns, on every exit path (a removal that the file system refuses
\* set aside).
C1_ScratchRemovedOnEveryExit ==
    (pc = "done" /\ DidOk("mk_scratch") /\ ~DidFailed("cleanup")) => ~scratch.exists

\* C2: when a probe reports a binary locked, the invocation fails at once with
\* the error that names this binary: no HTTP request has been issued, and the
\* scratch directory has been neither created nor removed.
C2_LockedFailsBeforeNetwork ==
    /\ \A k \in 1..Len(ops) :
         (ops[k].op = "probe" /\ ops[k].code = 1) =>
            /\ k = Len(ops)
            /\ pc = "done"
            /\ result = ErrWith("LOGIC", "InUse", 0, <<ops[k].bin>>)
            /\ \A j \in 1..Len(ops) : ops[j].op \in {"resolve", "mkdir_bin", "probe"}
            /\ scratch \in {NoScratch, StaleScratch}
            /\ bytes = NoBytes
    /\ result.msg = "InUse" =>
         /\ ops # <<>>
         /\ ops[Len(ops)] = Op("probe", result.detail[1], 1)

C2_Witness ==
    /\ pc = "done"
    /\ result = ErrWith("LOGIC", "InUse", 0, <<ENGINE_BINARIES[2]>>)
    /\ ENGINE_BINARIES[2] \in locked
    /\ scratch = StaleScratch

C4_EmptyUrlRejected ==
    (pc # "idle" /\ url = "") =>
        /\ pc = "done"
        /\ result = Err("LOGIC", "NoUrl")
        /\ ops = <<>>
        /\ binaries_dir = NoDir
        /\ bytes = NoBytes
        /\ scratch \in {NoScratch, StaleScratch}
        /\ binContent \in InitialInstalls

C4_Witness ==
    /\ pc = "done"
    /\ url = ""
    /\ result.kind = "LOGIC"
    /\ scratch = StaleScratch

\* the invocation downloaded a well-formed archive, extracted it, and no
\* probe and no copy met a lock or an error
CleanRun ==
    /\ pc = "done"
    /\ bytes.valid
    /\ DidOk("extract")
    /\ \A k \in 1..Len(ops) : ops[k].op \in {"probe", "copy_with_retry"} => ops[k].code = 0

\* C5: after a clean run on an archive that holds every required binary, the
\* result is success with count 3 and every target has the content of the
\* archive entry of its name.
C5_AllBinariesInstalled ==
    (CleanRun /\ \A b \in Binaries : EnclosedEntriesNamed(bytes, b) # {}) =>
        /\ result = Ok("Updated", Len(ENGINE_BINARIES))
        /\ \A b \in Binaries :
             binContent[b] \in {e.data : e \in EntriesNamed(bytes, b)}

\* C5 where the invocation started without a scratch directory or removed
\* the stale one
C5_OnFreshScratch ==
    (CleanRun /\ ~DidFailed("rm_scratch")
       /\ \A b \in Binaries : EnclosedEntriesNamed(bytes, b) # {}) =>
        /\ result = Ok("Updated", Len(ENGINE_BINARIES))
        /\ \A b \in Binaries :
             binContent[b] \in {e.data : e \in EntriesNamed(bytes, b)}

\* C6: after the extraction of an archive that holds none of the required
\* names, the result is the 'no engine binaries found' error, no binary has
\* been written and the scratch directory is gone (a final removal that the
\* file system refuses set aside).
C6_NoBinariesFound ==
    (pc = "done" /\ bytes.valid /\ DidOk("extract") /\ ~DidFailed("cleanup")
       /\ \A b \in Binaries : EntriesNamed(bytes, b) = {}) =>
        /\ result = Err("LOGIC", "NoBinaries")
        /\ \A b \in Binaries : binContent[b] \in {Absent, Old}
        /\ ~scratch.exists

\* C6 where the stale scratch directory, if any, was removed too
C6_WhenRemovalsSucceed ==
    (pc = "done" /\ bytes.valid /\ DidOk("extract")
       /\ ~DidFailed("rm_scratch") /\ ~DidFailed("cleanup")
       /\ \A b \in Binaries : EntriesNamed(bytes, b) = {}) =>
        /\ result = Err("LOGIC", "NoBinaries")
        /\ \A b \in Binaries : binContent[b] \in {Absent, Old}
        /\ ~scratch.exists

\* a path of the scratch directory that lies in the destination of extract_zip
InDestination(p) ==
    /\ Len(p) >= Len(EXTRACT_DIR)
    /\ SubSeq(p, 1, Len(EXTRACT_DIR)) = EXTRACT_DIR
    /\ \A k \in 1..Len(p) : p[k] # ".."

\* the entries of archive a whose stored path stays in the destination
SafeEntries(a) ==
    {a.entries[k] : k \in {j \in 1..Len(a.entries) : HasEnclosedName(a.entries[j])}}

\* C15: the call of extract_zip creates and writes only inside the
\* destination; the loop over the entries meets no error of its own at an
\* entry whose path leaves the destination; and when the call returns Ok
\* every entry whose path stays inside is extracted, the entries stored
\* before and after a skipped one included.
C15_ExtractStaysInside ==
    [][pc = "extract" =>
        /\ \A n \in (scratch'.nodes \ scratch.nodes) \cup (scratch.nodes \ scratch'.nodes) :
              InDestination(n.path)
        /\ binContent' = binContent
        /\ bytes.valid =>
              ~ExtractEntries(CreateDirAll(scratch.nodes, EXTRACT_DIR).nodes,
                              bytes.entries, Len(bytes.entries)).err
        /\ pc' = "find" =>
              \A e \in SafeEntries(bytes) :
                 IF e.isdir THEN IsDirAt(scratch'.nodes, EXTRACT_DIR \o e.path)
                 ELSE FileNode(EXTRACT_DIR \o e.path, e.data) \in scratch'.nodes
    ]_vars

\* an archive whose second binary has a path that leaves the destination,
\* extracted: the binaries stored before and after it are there
C15_Witness ==
    /\ pc = "find"
    /\ DidOk("extract")
    /\ \E e \in EntriesNamed(bytes, ENGINE_BINARIES[2]) : ~HasEnclosedName(e)
    /\ \A b \in {ENGINE_BINARIES[1], ENGINE_BINARIES[3]} :
         \E e \in EnclosedEntriesNamed(bytes, b) :
            FileNode(EXTRACT_DIR \o e.path, e.data) \in scratch.nodes

\* C18: an error returned by install_engine_update has the kind of the step
\* that failed: IO for the file system (directories, the archive file, the
\* copy of a binary), NETWORK for HTTP (send, status, body), ZIP (the
\* taxonomy's ARCHIVE) for bytes that are no archive, and LOGIC only for
\* the empty URL, a binary in use and nothing found.
C18_ErrorKinds ==
    (pc = "done" /\ ~result.ok) =>
        /\ result.msg \in {"CreateBinDir", "CreateScratch", "CreateZip", "WriteZip", "Partial"}
             => result.kind = "IO"
        /\ result.msg \in {"Send", "Status", "Body"} => result.kind = "NETWORK"
        /\ (result.msg = "Extract" /\ ~bytes.valid /\ ops[Len(ops)].bin # "IO")
             => result.kind = "ZIP"
        /\ result.kind = "LOGIC" => result.msg \in {"NoUrl", "InUse", "NoBinaries"}

\* the binaries whose copy returned with the given code, and the steps of the
\* log that searched for or copied binary b
CopiesWith(code) == {k \in 1..Len(ops) : ops[k].op = "copy_with_retry" /\ ops[k].code = code}
Searches(b) == {k \in 1..Len(ops) : ops[k].op = "find" /\ ops[k].bin = b}
Copies(b) == {k \in 1..Len(ops) : ops[k].op = "copy_with_retry" /\ ops[k].bin = b}

\* C19: a failed copy does not end the loop of step 5: when the invocation
\* returns after a failed copy, every required binary has been searched for
\* once and every binary found has been copied once; the result is the
\* partial-success error, whose count is the number of copies that succeeded
\* (possibly 0) and whose list has one entry per binary whose copy failed,
\* and never the 'no binaries found' error.
C19_FailedCopyDoesNotStop ==
    (pc = "done" /\ CopiesWith(1) # {}) =>
        /\ \A b \in Binaries :
             /\ Cardinality(Searches(b)) = 1
             /\ \A k \in Searches(b) :
                  IF ops[k].code = 1
                  THEN Cardinality(Copies(b)) = 1 /\ \A j \in Copies(b) : j > k
                  ELSE Copies(b) = {}
        /\ ~result.ok
        /\ result.kind = "LOGIC"
        /\ result.msg = "Partial"
        /\ result.count = Cardinality(CopiesWith(0))
        /\ Len(result.detail) = Cardinality(CopiesWith(1))
        /\ \A k \in CopiesWith(1) :
             Cardinality({j \in 1..Len(result.detail) : result.detail[j] = ops[k].bin}) = 1

\* the copy of the first binary failed, the second was not in the archive and
\* the third was copied all the same
C19_Witness ==
    /\ pc = "done"
    /\ result.msg = "Partial"
    /\ result.count = 1
    /\ result.detail = <<ENGINE_BINARIES[1]>>
    /\ \E k \in CopiesWith(0) : ops[k].bin = ENGINE_BINARIES[3]
    /\ Copies(ENGINE_BINARIES[2]) = {}

\* the required binaries that archive a holds, and a holding a non-empty proper
\* subset of them (every entry of a required name under a path that
\* extract_zip accepts)
Held(a) == {b \in Binaries : EntriesNamed(a, b) # {}}
HoldsProperSubset(a) ==
    /\ Held(a) # {}
    /\ Held(a) # Binaries
    /\ \A b \in Held(a) : EnclosedEntriesNamed(a, b) = EntriesNamed(a, b)

\* C20: a required binary that the archive does not hold is skipped and is no
\* error: after a clean run on an archive that holds a non-empty proper subset
\* S of the required binaries, the result is success with count |S|, the
\* targets of S have the content of their archive entries, and the targets
\* of the other binaries were neither copied onto nor changed.
C20_MissingBinarySkipped ==
    (CleanRun /\ HoldsProperSubset(bytes)) =>
        /\ result = Ok("Updated", Cardinality(Held(bytes)))
        /\ \A b \in Held(bytes) :
             binContent[b] \in {e.data : e \in EntriesNamed(bytes, b)}
        /\ \A b \in Binaries \ Held(bytes) :
             /\ Copies(b) = {}
             /\ binContent[b] \in {Absent, Old}

\* C20 where the invocation started without a scratch directory or removed
\* the stale one
C20_OnFreshScratch ==
    (CleanRun /\ ~DidFailed("rm_scratch") /\ HoldsProperSubset(bytes)) =>
        /\ result = Ok("Updated", Cardinality(Held(bytes)))
        /\ \A b \in Held(bytes) :
             binContent[b] \in {e.data : e \in EntriesNamed(bytes, b)}
        /\ \A b \in Binaries \ Held(bytes) :
             /\ Copies(b) = {}
             /\ binContent[b] \in {Absent, Old}

\* the outcomes of install_engine_update that come from the copy loop and
\* what follows it
AfterExtraction == {"Partial", "NoBinaries", "Updated"}

\* C21: when install_engine_update has failed before the copy loop (empty
\* URL, resolution, a locked binary, scratch directory, HTTP, the archive
\* file, extraction), no binary has been searched for or copied, and every
\* engine binary is as it was installed before the invocation: absent, or
\* with its old content.
C21_NoPartialUpdate ==
    (pc = "done" /\ result.msg \notin AfterExtraction) =>
        /\ ~result.ok
        /\ ~Did("find") /\ ~Did("copy_with_retry")
        /\ cpc = "idle"
        /\ binContent \in InitialInstalls

\* the extraction stopped at a later entry after it had written a required
\* binary into the scratch directory, over a complete installation
C21_Witness ==
    /\ pc = "done"
    /\ result.msg = "Extract"
    /\ binContent = [b \in Binaries |-> Old]
    /\ \E b \in Binaries : \E f \in find_file_recursive(scratch.nodes, EXTRACT_DIR, b) :
         DataAt(scratch.nodes, f) \in {e.data : e \in EntriesNamed(bytes, b)}

\* the contents a target can have when only the archive of this invocation
\* is installed: what it had before, what a copy that failed left, or the
\* data of an entry of that name of the downloaded archive
FromThisInvocation(b) ==
    {Absent, Old, Truncated} \cup {e.data : e \in EntriesNamed(bytes, b)}

\* C27: every binary that the invocation installs comes from the archive it
\* downloaded; a file left in the scratch directory by an earlier run is
\* never installed, also when the removal of the stale directory failed.
C27_OnlyThisArchive ==
    \A b \in Binaries : binContent[b] \in FromThisInvocation(b)

\* C27 where the stale scratch directory, if any, was removed
C27_OnFreshScratch ==
    ~DidFailed("rm_scratch") => \A b \in Binaries : binContent[b] \in FromThisInvocation(b)

\* the required binaries that the search found in the extracted tree
FoundBinaries == {b \in Binaries : \E k \in Searches(b) : ops[k].code = 1}

\* C30: install_engine_update returns success only when no copy failed and at
\* least one binary was copied; the count is then between 1 and 3 and is the
\* number of required binaries found in the extracted tree; and in every
\* invocation a required binary is searched for at most once and copied at
\* most once.
C30_SuccessCount ==
    /\ \A b \in Binaries : Cardinality(Searches(b)) <= 1 /\ Cardinality(Copies(b)) <= 1
    /\ (pc = "done" /\ result.ok) =>
         /\ CopiesWith(1) = {}
         /\ CopiesWith(0) # {}
         /\ result.count \in 1..Len(ENGINE_BINARIES)
         /\ result.count = Cardinality(FoundBinaries)
         /\ result.count = Cardinality(CopiesWith(0))

\* a success with two of the three binaries found and copied
C30_Witness ==
    /\ pc = "done"
    /\ result = Ok("Updated", 2)
    /\ Cardinality(FoundBinaries) = 2
    /\ \E b \in Binaries : Searches(b) # {} /\ Copies(b) = {}

-----------------------------------------------------------------------------
(* copy_with_retry on its own: any max_retries, any target, while other    *)
(* processes take and release the target                                   *)

CopySource(b) == EXTRACT_DIR \o <<b>>

InitCopy ==
    /\ locked = {}
    /\ binContent = [b \in Binaries |-> Old]
    /\ scratch = [exists |-> TRUE,
                  nodes |-> {DirNode(EXTRACT_DIR)}
                            \cup {FileNode(CopySource(b), EntryData(<<b>>)) : b \in Binaries}]
    /\ pc = "caller"
    /\ url = ""
    /\ binaries_dir = NoDir
    /\ idx = 1
    /\ bytes = NoBytes
    /\ updated_count = 0
    /\ errors = <<>>
    /\ result = NoResult
    /\ ops = <<>>
    /\ cpc = "loop"
    /\ target \in Binaries
    /\ source = CopySource(target)
    /\ max_retries \in 0..MaxRetries
    /\ attempt = 0
    /\ last_error = NoError
    /\ copyRet = NoCopyRet
    /\ copyLog = <<>>
    /\ DownloadIdle
    /\ BitrateIdle
    /\ OverlapIdle
    /\ ResolveIdle
    /\ ProbeIdle
    /\ RunsIdle
    /\ run1 = NoRun1
    /\ tally = NoTally
    /\ inl = NoInline

NextCopy ==
    \/ CopyAttempt /\ UNCHANGED dlVars
    \/ CopySleep /\ UNCHANGED dlVars
    \/ (\E b \in Binaries : LockBinary(b)) /\ UNCHANGED dlVars
    \/ (\E b \in Binaries : UnlockBinary(b)) /\ UNCHANGED dlVars

SpecCopy == InitCopy /\ [][NextCopy]_vars

Attempts(log) == Cardinality({k \in 1..Len(log) : log[k].op = "copy"})
Sleeps(log) == Cardinality({k \in 1..Len(log) : log[k].op = "sleep"})
RetryCodes == {ERROR_SHARING_VIOLATION, ERROR_LOCK_VIOLATION}

\* C7: a further attempt follows a failed one only when its code is 32 or 33
\* and fewer than max_retries attempts were made; the sleeps are exactly
\* between such attempts; any other error is returned at once; at most
\* max_retries attempts; Ok at the first success; on exhaustion the error of
\* the last attempt.
C7_CopyWithRetry ==
    /\ Attempts(copyLog) <= max_retries
    /\ \A k \in 1..Len(copyLog) :
         /\ k = 1 => copyLog[k].op = "copy"
         /\ (copyLog[k].op = "sleep") =>
              /\ k > 1
              /\ copyLog[k - 1].op = "copy"
              /\ copyLog[k - 1].code \in RetryCodes
              /\ Attempts(SubSeq(copyLog, 1, k)) < max_retries
              /\ copyLog[k].code = RETRY_SLEEP_MS
              /\ (k = Len(copyLog) => cpc = "loop")
         /\ (copyLog[k].op = "copy" /\ k > 1) => copyLog[k - 1].op = "sleep"
         /\ (copyLog[k].op = "copy" /\ copyLog[k].code \notin RetryCodes) =>
              (k = Len(copyLog) /\ cpc = "ret")
    /\ cpc = "ret" =>
         IF copyLog = <<>>
         THEN max_retries = 0 /\ ~copyRet.ok
         ELSE LET last == copyLog[Len(copyLog)] IN
              /\ last.op = "copy"
              /\ Sleeps(copyLog) = Attempts(copyLog) - 1
              /\ last.code = 0 => (copyRet = CopyOk /\ binContent[target] = EntryData(<<target>>))
              /\ last.code # 0 => (copyRet = CopyErr("IO", last_error) /\ last_error.code = last.code)
              /\ last.code \in RetryCodes => Attempts(copyLog) = max_retries

\* two sharing violations, two sleeps, and the third attempt succeeds
C7_Witness ==
    /\ cpc = "ret"
    /\ max_retries = COPY_MAX_RETRIES
    /\ Len(copyLog) = 5
    /\ copyLog[1].code = ERROR_SHARING_VIOLATION
    /\ copyLog[3].code = ERROR_LOCK_VIOLATION
    /\ copyRet.ok

-----------------------------------------------------------------------------
(* download_video on its own *)

InitDownload ==
    /\ locked = {}
    /\ binContent = [b \in Binaries |-> Old]
    /\ scratch = NoScratch
    /\ pc = "idle"
    /\ url = ""
    /\ binaries_dir = NoDir
    /\ idx = 1
    /\ bytes = NoBytes
    /\ updated_count = 0
    /\ errors = <<>>
    /\ result = NoResult
    /\ ops = <<>>
    /\ CopyIdle
    /\ DownloadIdle
    /\ BitrateIdle
    /\ OverlapIdle
    /\ ResolveIdle
    /\ ProbeIdle
    /\ RunsIdle
    /\ run1 = NoRun1
    /\ tally = NoTally
    /\ inl = NoInline

NextDownload ==
    \/ StartDownload
    \/ \E line \in Lines : RecvStdout(line)
    \/ \E line \in Lines : RecvStderr(line)
    \/ \E code \in ExitCodes : RecvTerminated(code)
    \/ RecvOther
    \/ CloseChannel
    \/ ChannelClosed

SpecDownload == InitDownload /\ [][NextDownload]_vars

\* the runtime polls the task again when recv() can answer: a return that
\* stays possible is taken
SpecDownloadLive == SpecDownload /\ WF_vars(ChannelClosed)

-----------------------------------------------------------------------------
(* Properties of download_video *)

IsLine(ev) == ev.type \in {"Stdout", "Stderr"}

HasMarker(line) == \E k \in 1..Len(line) : line[k] = MARKER

\* the trimmed text that follows the first marker of a line
TextAfterFirstMarker(line) ==
    LET first == CHOOSE k \in 1..Len(line) :
                     line[k] = MARKER /\ \A j \in 1..(k - 1) : line[j] # MARKER
    IN  Trim([j \in 1..(Len(line) - first) |-> line[first + j]])

\* the line carries a destination that ends in .mp3
NamesMp3(ev) ==
    IsLine(ev) /\ HasMarker(ev.line) /\ EndsWithMp3(TextAfterFirstMarker(ev.line))

Mp3Events == {k \in 1..Len(received) : NamesMp3(received[k])}

Latest(ks) == CHOOSE k \in ks : \A j \in ks : j <= k

Emitted(name) == {k \in 1..Len(emitted) : emitted[k].name = name}
EmittedPayload(payload) == {k \in 1..Len(emitted) : emitted[k].payload = payload}

\* C8: after any sequence of lines of either stream, final_file_path is the
\* trimmed text after the first marker of the latest line whose such text
\* ends in .mp3, and None when there is no such line.
C8_BestKnownPath ==
    final_file_path =
        IF Mp3Events = {} THEN NoText
        ELSE TextAfterFirstMarker(received[Latest(Mp3Events)].line)

\* a captured path, then a line that names another .mp3, then a destination
\* that is not an .mp3
C8_Witness ==
    /\ Len(received) = 3
    /\ NamesMp3(received[1])
    /\ NamesMp3(received[2])
    /\ received[1].type # received[2].type
    /\ TextAfterFirstMarker(received[1].line) # TextAfterFirstMarker(received[2].line)
    /\ IsLine(received[3]) /\ HasMarker(received[3].line) /\ ~NamesMp3(received[3])
    /\ final_file_path = TextAfterFirstMarker(received[2].line)

TerminatedWith(code) ==
    \E k \in 1..Len(received) : received[k] = Event("Terminated", NoText, code)

\* C9: exit code 0 and no destination ending in .mp3 ever received: the
\* fallback string is returned as a success, no download-complete event is
\* emitted, and the completion notice is.
C9_FallbackOnSuccess ==
    (TerminatedWith("Some(0)") /\ Mp3Events = {}) =>
        /\ Emitted(EVENT_DOWNLOAD_COMPLETE) = {}
        /\ \E k \in Emitted(EVENT_DOWNLOAD_PROGRESS) : emitted[k].payload = CompletedNotice
        /\ dpc = "returned" => dret = DlOk(Fallback)

C9_Witness ==
    /\ dpc = "returned"
    /\ TerminatedWith("Some(0)")
    /\ Mp3Events = {}
    /\ \E k \in 1..Len(received) : IsLine(received[k]) /\ HasMarker(received[k].line)
    /\ dret = DlOk(Fallback)

\* C10: an exit code other than 0, or none: exactly one progress event that
\* tells the code, no download-complete event, and the value returned is a
\* success: the captured path, or the fallback string.
C10_FailureIsNotAnError ==
    \A code \in ExitCodes \ {"Some(0)"} :
        TerminatedWith(code) =>
            /\ Cardinality(EmittedPayload(ErrorNotice(code))) = 1
            /\ \A k \in EmittedPayload(ErrorNotice(code)) :
                 emitted[k].name = EVENT_DOWNLOAD_PROGRESS
            /\ Emitted(EVENT_DOWNLOAD_COMPLETE) = {}
            /\ dpc = "returned" =>
                 /\ dret.ok
                 /\ dret.value = IF Mp3Events = {} THEN Fallback
                                  ELSE TextAfterFirstMarker(received[Latest(Mp3Events)].line)

C10_Witness ==
    /\ dpc = "returned"
    /\ TerminatedWith("None")
    /\ Mp3Events # {}
    /\ dret = DlOk(final_file_path)

NonBlank(line) == \E k \in 1..Len(line) : line[k] \notin Whitespace

\* the non-blank lines received before the t-th event, and the lines among
\* them that name an .mp3 destination
PrintedBefore(t) == {k \in 1..(t - 1) : IsLine(received[k]) /\ NonBlank(received[k].line)}
Mp3Before(t) == {k \in Mp3Events : k < t}

\* C11: at a termination with exit code 0 and a captured path, the
\* download-complete event carries the path captured up to then, the
\* 'Download completed!' notice follows it, and both come after the progress
\* events of all the lines received before the termination.
C11_CompleteThenNotice ==
    \A t \in 1..Len(received) :
        (received[t] = Event("Terminated", NoText, "Some(0)") /\ Mp3Before(t) # {}) =>
            LET n == Cardinality(PrintedBefore(t))
                path == TextAfterFirstMarker(received[Latest(Mp3Before(t))].line)
            IN  /\ Len(emitted) >= n + 2
                /\ \A k \in 1..n :
                     /\ emitted[k].name = EVENT_DOWNLOAD_PROGRESS
                     /\ \E j \in PrintedBefore(t) :
                          emitted[k].payload = from_utf8_lossy(received[j].line)
                /\ emitted[n + 1] = Emit(EVENT_DOWNLOAD_COMPLETE, path)
                /\ emitted[n + 2] = Emit(EVENT_DOWNLOAD_PROGRESS, CompletedNotice)

\* a path, another line, the termination with code 0, and one more line
C11_Witness ==
    /\ dpc = "returned"
    /\ Len(received) = 4
    /\ NamesMp3(received[1])
    /\ IsLine(received[2]) /\ ~HasMarker(received[2].line) /\ NonBlank(received[2].line)
    /\ received[3] = Event("Terminated", NoText, "Some(0)")
    /\ IsLine(received[4]) /\ NonBlank(received[4].line)
    /\ Len(emitted) = 5
    /\ emitted[3].name = EVENT_DOWNLOAD_COMPLETE

\* how many events the terminations received before the t-th event account for
NoticesBefore(t) ==
    LET ends == {k \in 1..(t - 1) : received[k].type = "Terminated"}
        both == {k \in ends : received[k].code = "Some(0)" /\ Mp3Before(k) # {}}
    IN  Cardinality(ends) + Cardinality(both)

\* where the progress event of the t-th received event stands among the
\* emitted events, when that event is a non-blank line
Position(t) == Cardinality(PrintedBefore(t)) + NoticesBefore(t) + 1

Printed == PrintedBefore(Len(received) + 1)

\* C12: the progress event of every non-blank line stands in the emitted
\* sequence where the order of delivery puts it, so two lines of the same
\* stream have their events in the order the lines were delivered.
C12_PerStreamOrder ==
    /\ \A i \in Printed :
         /\ Position(i) <= Len(emitted)
         /\ emitted[Position(i)] =
              Emit(EVENT_DOWNLOAD_PROGRESS, from_utf8_lossy(received[i].line))
    /\ \A i, j \in Printed :
         (i < j /\ received[i].type = received[j].type) => Position(i) < Position(j)

\* two different stderr lines with a stdout line between them
C12_Witness ==
    /\ Len(received) = 3
    /\ Printed = {1, 2, 3}
    /\ received[1].type = "Stderr" /\ received[2].type = "Stdout" /\ received[3].type = "Stderr"
    /\ received[1].line # received[3].line
    /\ emitted[1].payload = from_utf8_lossy(received[1].line)
    /\ emitted[3].payload = from_utf8_lossy(received[3].line)

ValidUtf8(line) == \A k \in 1..Len(line) : line[k] # INVALID_BYTE

\* the events emitted are those of the non-blank lines and of the termination
OneEventPerPrintedLine ==
    Len(emitted) = Cardinality(Printed) + NoticesBefore(Len(received) + 1)

\* the destination of every line is parsed, blank or not
EveryLineParsed ==
    final_file_path = IF Mp3Events = {} THEN NoText
                      ELSE TextAfterFirstMarker(received[Latest(Mp3Events)].line)

\* C13 as stated: one download-progress event per non-blank line, carrying
\* the line unchanged, none for a blank line, and the destination parsed
\* whatever the line.
C13_LineForwardedUnchanged ==
    /\ OneEventPerPrintedLine
    /\ \A i \in Printed :
         /\ Position(i) <= Len(emitted)
         /\ emitted[Position(i)] = Emit(EVENT_DOWNLOAD_PROGRESS, received[i].line)
    /\ EveryLineParsed

\* C13 amended: the event carries the line decoded as UTF-8 with U+FFFD for
\* each invalid byte, which is the line unchanged when it is valid UTF-8.
C13_LineForwardedDecoded ==
    /\ OneEventPerPrintedLine
    /\ \A i \in Printed :
         /\ Position(i) <= Len(emitted)
         /\ emitted[Position(i)].name = EVENT_DOWNLOAD_PROGRESS
         /\ LET payload == emitted[Position(i)].payload
                line == received[i].line
            IN  /\ Len(payload) = Len(line)
                /\ \A k \in 1..Len(line) :
                     payload[k] = IF line[k] = INVALID_BYTE THEN REPLACEMENT_CHARACTER
                                  ELSE line[k]
                /\ ValidUtf8(line) => payload = line
    /\ EveryLineParsed

\* a blank line, a line with an invalid byte and a valid line
C13_Witness ==
    /\ Len(received) = 3
    /\ IsLine(received[1]) /\ ~NonBlank(received[1].line)
    /\ IsLine(received[2]) /\ ~ValidUtf8(received[2].line)
    /\ IsLine(received[3]) /\ ValidUtf8(received[3].line) /\ NonBlank(received[3].line)
    /\ Len(emitted) = 2
    /\ emitted[1].payload # received[2].line
    /\ emitted[2].payload = received[3].line

-----------------------------------------------------------------------------
(* The quality mapping on its own: every quality string up to MaxQualityLen *)

InitBitrate ==
    /\ locked = {}
    /\ binContent = [b \in Binaries |-> Old]
    /\ scratch = NoScratch
    /\ pc = "idle"
    /\ url = ""
    /\ binaries_dir = NoDir
    /\ idx = 1
    /\ bytes = NoBytes
    /\ updated_count = 0
    /\ errors = <<>>
    /\ result = NoResult
    /\ ops = <<>>
    /\ CopyIdle
    /\ DownloadIdle
    /\ quality \in Qualities
    /\ audio_bitrate = NoText
    /\ inline_bitrate = NoText
    /\ OverlapIdle
    /\ ResolveIdle
    /\ ProbeIdle
    /\ RunsIdle
    /\ run1 = NoRun1
    /\ tally = NoTally
    /\ inl = NoInline

NextBitrate ==
    \/ MapQuality
    \/ MapQualityInline

SpecBitrate == InitBitrate /\ [][NextBitrate]_vars

\* C14: the four lower-case qualities map to their upper-case bitrates, every
\* other string (the empty one and the upper-case ones too) to 320K, a
\* bitrate is always returned, and the inlined mapping of lib.rs agrees.
C14_AudioBitrate ==
    /\ audio_bitrate # NoText =>
         /\ quality = <<"1", "2", "8", "k">> => audio_bitrate = <<"1", "2", "8", "K">>
         /\ quality = <<"1", "9", "2", "k">> => audio_bitrate = <<"1", "9", "2", "K">>
         /\ quality = <<"2", "5", "6", "k">> => audio_bitrate = <<"2", "5", "6", "K">>
         /\ quality = <<"3", "2", "0", "k">> => audio_bitrate = <<"3", "2", "0", "K">>
         /\ quality \notin {<<"1", "2", "8", "k">>, <<"1", "9", "2", "k">>,
                            <<"2", "5", "6", "k">>, <<"3", "2", "0", "k">>}
              => audio_bitrate = <<"3", "2", "0", "K">>
    /\ (audio_bitrate # NoText /\ inline_bitrate # NoText) => inline_bitrate = audio_bitrate

\* an upper-case quality, mapped by both
C14_Witness ==
    /\ quality = <<"1", "2", "8", "K">>
    /\ audio_bitrate = <<"3", "2", "0", "K">>
    /\ inline_bitrate = <<"3", "2", "0", "K">>

-----------------------------------------------------------------------------
(* Overlapping invocations of install_engine_update *)

InitOverlap ==
    /\ locked = {}
    /\ binContent = [b \in Binaries |-> Old]
    /\ scratch = NoScratch
    /\ pc = "idle"
    /\ url = ""
    /\ binaries_dir = NoDir
    /\ idx = 1
    /\ bytes = NoBytes
    /\ updated_count = 0
    /\ errors = <<>>
    /\ result = NoResult
    /\ ops = <<>>
    /\ CopyIdle
    /\ DownloadIdle
    /\ BitrateIdle
    /\ OverlapIdle
    /\ ResolveIdle
    /\ ProbeIdle
    /\ RunsIdle
    /\ run1 = NoRun1
    /\ tally = NoTally
    /\ inl = NoInline

NextOverlap ==
    \/ \E i \in Invocations : OPrepareScratch(i)
    \/ \E i \in Invocations : OHttpGet(i)
    \/ \E i \in Invocations : OWriteZip(i)
    \/ \E i \in Invocations : OExtractZip(i)
    \/ \E i \in Invocations : OFinish(i)

SpecOverlap == InitOverlap /\ [][NextOverlap]_vars

\* the invocation has its scratch directory and has not returned
HoldsScratch(i) == opc[i] \in {"http", "write", "extract", "cleanup"}

\* C16: two invocations that overlap have scratch directories of different
\* names, and no step of one removes or replaces a file that another, still
\* running, wrote.
C16_ScratchIsPerInvocation ==
    [][/\ \A i, j \in Invocations :
            (i # j /\ HoldsScratch(i)' /\ HoldsScratch(j)') => temp_dir'[i] # temp_dir'[j]
       /\ \A i, j \in Invocations :
            (i # j /\ opc'[i] # opc[i] /\ HoldsScratch(j)) =>
                \A f \in tmp[temp_dir[j]].files :
                    f.by = j => f \in tmp'[temp_dir[j]].files
      ]_vars

-----------------------------------------------------------------------------
(* resolve_binaries_dir on its own, in every environment *)

InitResolve ==
    /\ locked = {}
    /\ binContent = [b \in Binaries |-> Old]
    /\ scratch = NoScratch
    /\ pc = "idle"
    /\ url = ""
    /\ binaries_dir = NoDir
    /\ idx = 1
    /\ bytes = NoBytes
    /\ updated_count = 0
    /\ errors = <<>>
    /\ result = NoResult
    /\ ops = <<>>
    /\ CopyIdle
    /\ DownloadIdle
    /\ BitrateIdle
    /\ OverlapIdle
    /\ runEnv \in Environments(MaxLevels)
    /\ resolved = NotResolved
    /\ ProbeIdle
    /\ RunsIdle
    /\ run1 = NoRun1
    /\ tally = NoTally
    /\ inl = NoInline

NextResolve == Resolve

SpecResolve == InitResolve /\ [][NextResolve]_vars

\* C17 as stated: in every environment the function returns a path, never
\* an error.
C17_AlwaysAPath ==
    resolved # NotResolved => (resolved.ok /\ resolved.dir # NoDir)

\* C17 amended: a path whenever the executable's path is known and has a
\* parent, whatever the layout and the directories; an IO error when
\* current_exe fails, a LOGIC error when the path has no parent.
C17_PathWhenExeKnown ==
    resolved # NotResolved =>
        /\ runEnv.exe = "ok" => (resolved.ok /\ resolved.dir # NoDir)
        /\ runEnv.exe = "err" => (~resolved.ok /\ resolved.kind = "IO")
        /\ runEnv.exe = "root" => (~resolved.ok /\ resolved.kind = "LOGIC")

\* development layout, src-tauri only above the levels searched, no
\* CARGO_MANIFEST_DIR: the executable's directory
C17_Witness ==
    /\ runEnv.exe = "ok" /\ is_dev_mode(runEnv.exe_dir) /\ runEnv.manifest = "unset"
    /\ runEnv.srcTauri = {MaxLevels}
    /\ resolved.ok
    /\ resolved.dir = Dir("exe", 0)

\* the path of exe_dir contains target/debug or target/release, with either
\* separator
BuildOutputs == {"debug", "release"}
HasBuildSegment(exe_dir) ==
    \E sep \in Separators, build \in BuildOutputs : Contains(exe_dir, "target", sep, build)

\* the levels among the first five (the executable's directory and its next
\* four ancestors) that hold src-tauri
SearchedWithSrcTauri(e) == {k \in e.srcTauri : k <= 5 /\ k <= e.levels}
Nearest(levels) == CHOOSE k \in levels : \A j \in levels : k <= j

\* C25: with the executable's directory known, resolve_binaries_dir returns
\* it when its path contains no build-output segment; otherwise src-tauri
\* of the nearest of the first 5 levels that holds one, otherwise
\* CARGO_MANIFEST_DIR if it is set, otherwise the executable's directory.
C25_ResolutionOrder ==
    (resolved # NotResolved /\ runEnv.exe = "ok") =>
        /\ resolved.ok
        /\ resolved.dir =
             IF ~HasBuildSegment(runEnv.exe_dir) THEN Dir("exe", 0)
             ELSE IF SearchedWithSrcTauri(runEnv) # {}
             THEN Dir("src-tauri", Nearest(SearchedWithSrcTauri(runEnv)))
             ELSE IF runEnv.manifest # "unset" THEN Dir("manifest", 0)
             ELSE Dir("exe", 0)

\* C25 where CARGO_MANIFEST_DIR counts as set when its value is valid Unicode
C25_WithUnicodeManifest ==
    (resolved # NotResolved /\ runEnv.exe = "ok") =>
        /\ resolved.ok
        /\ resolved.dir =
             IF ~HasBuildSegment(runEnv.exe_dir) THEN Dir("exe", 0)
             ELSE IF SearchedWithSrcTauri(runEnv) # {}
             THEN Dir("src-tauri", Nearest(SearchedWithSrcTauri(runEnv)))
             ELSE IF runEnv.manifest = "unicode" THEN Dir("manifest", 0)
             ELSE Dir("exe", 0)

-----------------------------------------------------------------------------
(* is_file_locked on its own: every file, every answer of the open *)

InitProbe ==
    /\ locked = {}
    /\ binContent \in InitialInstalls
    /\ scratch = NoScratch
    /\ pc = "idle"
    /\ url = ""
    /\ binaries_dir = NoDir
    /\ idx = 1
    /\ bytes = NoBytes
    /\ updated_count = 0
    /\ errors = <<>>
    /\ result = NoResult
    /\ ops = <<>>
    /\ CopyIdle
    /\ DownloadIdle
    /\ BitrateIdle
    /\ OverlapIdle
    /\ ResolveIdle
    /\ probeFile \in ProbedFiles
    /\ probeOpen \in OpenResults
    /\ probeRet = NoProbe
    /\ RunsIdle
    /\ run1 = NoRun1
    /\ tally = NoTally
    /\ inl = NoInline

NextProbe == IsFileLocked

SpecProbe == InitProbe /\ [][NextProbe]_vars

\* C22: is_file_locked answers false for a path that does not exist and for a
\* file that opens; when the open fails it answers true exactly for
\* permission-denied and for the OS error codes 32 and 33, false for every
\* other failure; and the probed file is afterwards as it was before: not
\* created, not truncated, not modified.
C22_IsFileLocked ==
    probeRet.done =>
        /\ probeFile = Absent => ~probeRet.locked
        /\ (probeFile # Absent /\ probeOpen = IoOk) => ~probeRet.locked
        /\ (probeFile # Absent /\ probeOpen # IoOk) =>
             (probeRet.locked <=> \/ probeOpen.kind = "PermissionDenied"
                                  \/ probeOpen.code \in {32, 33})
        /\ probeRet.content = probeFile

\* an existing file whose open fails with an error that is no lock
C22_Witness ==
    /\ probeRet.done
    /\ probeFile = Old
    /\ probeOpen = [kind |-> "Other", code |-> 5]
    /\ ~probeRet.locked
    /\ probeRet.content = Old

-----------------------------------------------------------------------------
(* Invocations of install_engine_update one after the other, in an        *)
(* environment that changes while they run                                *)

InitRuns ==
    /\ locked = {}
    /\ binContent = [b \in Binaries |-> Old]
    /\ scratch = NoScratch
    /\ pc = "idle"
    /\ url = ""
    /\ binaries_dir = NoDir
    /\ idx = 1
    /\ bytes = NoBytes
    /\ updated_count = 0
    /\ errors = <<>>
    /\ result = NoResult
    /\ ops = <<>>
    /\ CopyIdle
    /\ DownloadIdle
    /\ BitrateIdle
    /\ OverlapIdle
    /\ ResolveIdle
    /\ ProbeIdle
    /\ sysEnv \in SysEnvironments
    /\ invocation = 0
    /\ paths = <<>>
    /\ run1 = NoRun1
    /\ tally = NoTally
    /\ inl = NoInline

NextRuns ==
    \/ ChangeEnvironment
    \/ RunResolve
    \/ RunProbe
    \/ RunDownload
    \/ RunCopy

SpecRuns == InitRuns /\ [][NextRuns]_vars

\* the steps of the log that belong to invocation r
Resolutions(r) == {k \in 1..Len(paths) : paths[k].run = r /\ paths[k].step = "resolve"}
Uses(r) == {k \in 1..Len(paths) : paths[k].run = r /\ paths[k].step \in {"probe", "copy"}}

\* C23: an invocation resolves the binaries directory once, with the
\* environment of that moment and whatever an earlier invocation resolved;
\* every path it probes and every target it copies to is a required binary
\* directly in that directory, also when the environment has changed since.
C23_OneDirectoryPerRun ==
    /\ [](\A r \in 1..MaxRuns :
            /\ Cardinality(Resolutions(r)) = (IF r <= invocation THEN 1 ELSE 0)
            /\ \A k \in Uses(r) : \E j \in Resolutions(r) :
                 /\ j < k
                 /\ paths[k].path.dir = paths[j].path.dir
                 /\ paths[k].path.name \in Binaries)
    /\ [][/\ invocation' # invocation =>
              /\ binaries_dir' = resolve_binaries_dir(sysEnv).dir
              /\ paths'[Len(paths')] = [run |-> invocation', step |-> "resolve",
                                        path |-> Join(binaries_dir', "")]
          /\ invocation' = invocation => binaries_dir' = binaries_dir]_vars

\* the second invocation resolved another directory than the first, and while
\* it copies the resolver would answer yet another one
C23_Witness ==
    /\ invocation = 2
    /\ pc = "find"
    /\ idx = Len(ENGINE_BINARIES)
    /\ resolve_binaries_dir(sysEnv).dir # binaries_dir
    /\ \E j \in Resolutions(1), i \in Resolutions(2) :
         /\ paths[i].path.dir # paths[j].path.dir
         /\ paths[i].path.dir = binaries_dir
    /\ \E k \in Uses(1) : paths[k].step = "copy"
    /\ \E k \in Uses(2) : paths[k].step = "copy"

-----------------------------------------------------------------------------
(* download_video and the end of the process *)

\* C24: download_video returns a value only when the channel of the process's
\* events is closed, hence after the last event (a failed spawn, where there
\* is no process and no channel, returns the error at once); and once the
\* channel is closed download_video does return.
C24_ReturnsWhenChannelCloses ==
    /\ [](dpc = "returned" =>
            /\ dret.ok <=> rx = "closed"
            /\ ~dret.ok <=> (rx = "none" /\ received = <<>>)
            /\ dret.ok => (Seen("Terminated") \/ Seen("Error")))
    /\ [](rx = "open" => dpc = "listening")
    /\ (rx = "closed" ~> dpc = "returned")

\* lines were received, the process terminated, more lines came, the channel
\* closed and download_video returned
C24_Witness ==
    /\ dpc = "returned"
    /\ rx = "closed"
    /\ Len(received) = MaxEvents + 1
    /\ received[2].type = "Terminated"
    /\ IsLine(received[Len(received)])

-----------------------------------------------------------------------------
(* download_video run twice: the second process prints what the first      *)
(* printed, each line on either stream                                     *)

\* two events that differ at most in the stream of their line
SameButOrigin(a, b) ==
    /\ a.line = b.line
    /\ a.code = b.code
    /\ IsLine(a) <=> IsLine(b)
    /\ ~IsLine(a) => a.type = b.type

\* the event received in this step of the second run is the event the first
\* run received at that place
Replays ==
    run1.done =>
        /\ Len(received') <= Len(run1.received)
        /\ SameButOrigin(received'[Len(received')], run1.received[Len(received')])

\* download_video is invoked again and the process is spawned
StartReplay ==
    /\ dpc = "returned"
    /\ dret.ok
    /\ ~run1.done
    /\ run1' = [done |-> TRUE, received |-> received, emitted |-> emitted, dret |-> dret]
    /\ dpc' = "listening"
    /\ rx' = "open"
    /\ final_file_path' = NoText
    /\ emitted' = <<>>
    /\ received' = <<>>
    /\ dret' = NoDlRet
    /\ UNCHANGED <<envVars, pipeVars, ops, copyVars, brVars, ovVars, rvVars, pbVars, rnVars, tmVars, inVars>>

\* the lines of the two runs
StreamLines ==
    {<<" ">>,
     <<"[ExtractAudio] ", MARKER, " ", "a", MP3, "\n">>,
     <<MARKER, "b", MP3>>}

InitStreams == InitDownload

NextStreams ==
    \/ StartDownload
    \/ \E line \in StreamLines : RecvStdout(line) /\ Replays
    \/ \E line \in StreamLines : RecvStderr(line) /\ Replays
    \/ \E code \in ExitCodes : RecvTerminated(code) /\ Replays
    \/ RecvOther /\ Replays
    \/ CloseChannel /\ (run1.done => Len(received) = Len(run1.received))
    \/ ChannelClosed
    \/ StartReplay

SpecStreams == InitStreams /\ [][NextStreams]_vars

IsPrefix(a, b) == Len(a) <= Len(b) /\ SubSeq(b, 1, Len(a)) = a

\* the places where the two runs received a line on different streams
Swapped == {k \in 1..Len(received) : IsLine(received[k])
                                     /\ received[k].type # run1.received[k].type}

\* C26: a run that receives the events of another run, with the lines of any
\* subset on the other stream, emits the same events in the same order and
\* returns the same value.
C26_OriginDoesNotMatter ==
    run1.done =>
        /\ IsPrefix(emitted, run1.emitted)
        /\ dpc = "returned" => (emitted = run1.emitted /\ dret = run1.dret)

\* the second run has returned; the line that names the final path came on
\* the other stream and a line after it on the same stream
C26_Witness ==
    /\ run1.done
    /\ dpc = "returned"
    /\ Emitted(EVENT_DOWNLOAD_COMPLETE) # {}
    /\ \E k \in Swapped : NamesMp3(received[k])
    /\ \E k \in 1..Len(received) : IsLine(received[k]) /\ k \notin Swapped

-----------------------------------------------------------------------------
(* The download-complete event *)

\* the places of the termination events received
Terminations == {t \in 1..Len(received) : received[t].type = "Terminated"}

\* C28: when a download-complete event has been emitted, the value
\* download_video returns is the payload of that event, whatever is received
\* after the termination.
C28_ReturnsWhatItAnnounced ==
    (dpc = "returned" /\ Emitted(EVENT_DOWNLOAD_COMPLETE) # {}) =>
        /\ dret.ok
        /\ \A k \in Emitted(EVENT_DOWNLOAD_COMPLETE) : emitted[k].payload = dret.value

\* C28 where no line that names an .mp3 destination is received after the
\* termination
C28_WhenNoPathFollows ==
    (dpc = "returned" /\ Emitted(EVENT_DOWNLOAD_COMPLETE) # {}
       /\ \A t \in Terminations : \A k \in Mp3Events : k < t) =>
        /\ dret.ok
        /\ \A k \in Emitted(EVENT_DOWNLOAD_COMPLETE) : emitted[k].payload = dret.value

\* C29: there is at most one download-complete event for a termination; it
\* is emitted when the termination is handled (after the progress events of
\* the lines before it, never by a line), only for exit code 0 and with a
\* captured path that ends in .mp3 as payload; a failed spawn returns an
\* error and no event at all has been emitted.
C29_CompleteOnlyAtTermination ==
    /\ Cardinality(Emitted(EVENT_DOWNLOAD_COMPLETE)) <= Cardinality(Terminations)
    /\ \A k \in Emitted(EVENT_DOWNLOAD_COMPLETE) :
         /\ EndsWithMp3(emitted[k].payload)
         /\ \E t \in Terminations :
              /\ received[t].code = "Some(0)"
              /\ Mp3Before(t) # {}
              /\ k = Cardinality(PrintedBefore(t)) + 1
    /\ (dpc = "returned" /\ ~dret.ok) =>
         /\ dret = DlErr("TAURI")
         /\ emitted = <<>>
         /\ received = <<>>

\* a line named the file, the process ended with code 0, and another line
\* that names a file came after: still one download-complete event
C29_Witness ==
    /\ dpc = "returned"
    /\ Cardinality(Emitted(EVENT_DOWNLOAD_COMPLETE)) = 1
    /\ Cardinality(Mp3Events) = 2
    /\ \E t \in Terminations : Mp3Before(t) # {} /\ Latest(Mp3Events) > t

-----------------------------------------------------------------------------
(* install_engine_update with the fs::copy calls and the sleeps of the     *)
(* invocation counted, commands/engine.rs with utils/zip.rs                *)

notTally == <<dpc, final_file_path, emitted, received, dret, rx, brVars, ovVars, rvVars,
              pbVars, rnVars, twVars, inVars>>

\* what the step appended to the log of the call is added to the count
Counted ==
    tally' = [copies |-> tally.copies + Attempts(copyLog') - Attempts(copyLog),
              sleeps |-> tally.sleeps + Sleeps(copyLog') - Sleeps(copyLog)]

\* the invocation starts on a complete installation: any of the binaries can
\* be held by another process during the copy loop
InitTally ==
    /\ Init
    /\ \A b \in Binaries : binContent[b] = Old

NextTally ==
    \/ (\E u \in Urls : Invoke(u)) /\ UNCHANGED dlVars
    \/ ResolveDir /\ UNCHANGED dlVars
    \/ ProbeLock /\ UNCHANGED dlVars
    \/ PrepareScratch /\ UNCHANGED dlVars
    \/ HttpGet /\ UNCHANGED dlVars
    \/ WriteZip /\ UNCHANGED dlVars
    \/ ExtractZip /\ UNCHANGED dlVars
    \/ FindBinary /\ UNCHANGED dlVars
    \/ CopyAttempt /\ Counted /\ UNCHANGED notTally
    \/ CopySleep /\ Counted /\ UNCHANGED notTally
    \/ AfterCopy /\ UNCHANGED dlVars
    \/ Finish /\ UNCHANGED dlVars
    \/ (\E b \in Binaries : LockBinary(b)) /\ UNCHANGED dlVars
    \/ (\E b \in Binaries : UnlockBinary(b)) /\ UNCHANGED dlVars

SpecTally == InitTally /\ [][NextTally]_vars

\* a step of the copy phase: the loop over the binaries, the calls of
\* copy_with_retry, and what follows the loop
CopyPhaseStep ==
    \/ FindBinary /\ UNCHANGED dlVars
    \/ CopyAttempt /\ Counted /\ UNCHANGED notTally
    \/ CopySleep /\ Counted /\ UNCHANGED notTally
    \/ AfterCopy /\ UNCHANGED dlVars
    \/ Finish /\ UNCHANGED dlVars

\* the command runs on a thread of its own: fs::copy, thread::sleep and the
\* removal of the scratch directory return, and the thread is scheduled again
SpecTallyLive == SpecTally /\ WF_vars(CopyPhaseStep)

InCopyPhase == pc \in {"find", "copying"}

\* C31: the copy phase terminates: each call of copy_with_retry makes at
\* most 3 fs::copy attempts and at most 2 sleeps, each binary gets at most
\* one call, the invocation makes at most 9 attempts (and 6 sleeps), whatever
\* the attempts answer; and from the copy phase the removal of the scratch
\* directory and the return of the result are always reached.
C31_CopyPhaseTerminates ==
    /\ [](/\ Attempts(copyLog) <= COPY_MAX_RETRIES
          /\ Sleeps(copyLog) <= COPY_MAX_RETRIES - 1
          /\ \A b \in Binaries : Cardinality(Copies(b)) <= 1
          /\ tally.copies <= Len(ENGINE_BINARIES) * COPY_MAX_RETRIES
          /\ tally.sleeps <= Len(ENGINE_BINARIES) * (COPY_MAX_RETRIES - 1)
          /\ pc = "copying" => max_retries = COPY_MAX_RETRIES)
    /\ InCopyPhase ~> (pc = "done" /\ Did("cleanup") /\ result # NoResult)

\* every attempt of every binary failed with a sharing violation, and the
\* invocation returned
C31_Witness ==
    /\ pc = "done"
    /\ tally.copies = Len(ENGINE_BINARIES) * COPY_MAX_RETRIES
    /\ tally.sleeps = Len(ENGINE_BINARIES) * (COPY_MAX_RETRIES - 1)
    /\ Len(errors) = Len(ENGINE_BINARIES)
    /\ Did("cleanup")

-----------------------------------------------------------------------------
(* copy_with_retry called with max_retries = 0, utils/zip.rs and lib.rs    *)

\* the step made an attempt that failed with code 32 or 33: the condition
\* attempt < max_retries - 1 is evaluated then, and only then
EvaluatesBound ==
    /\ Len(copyLog') = Len(copyLog) + 1
    /\ copyLog'[Len(copyLog')].op = "copy"
    /\ copyLog'[Len(copyLog')].code \in RetryCodes

\* C32: a call with max_retries = 0 makes no attempt and no sleep, leaves the
\* target as it was and returns an error; and max_retries - 1 is evaluated
\* only where max_retries >= 1: the subtraction of unsigned integers never
\* goes below zero.
C32_ZeroRetries ==
    /\ []((cpc # "idle" /\ max_retries = 0) =>
            /\ copyLog = <<>>
            /\ cpc # "sleep"
            /\ binContent[target] = Old
            /\ cpc = "ret" => ~copyRet.ok /\ copyRet = CopyErr("LOGIC", NoError))
    /\ [][EvaluatesBound => max_retries - 1 >= 0]_vars

\* the call with max_retries = 0 returned, its target held by another process
C32_Witness ==
    /\ max_retries = 0
    /\ cpc = "ret"
    /\ ~copyRet.ok
    /\ target \in locked

-----------------------------------------------------------------------------
(* The two update pipelines, commands/engine.rs with utils/zip.rs and the   *)
(* one of lib.rs, invoked on the same installation with the same URL, and   *)
(* given the same answers by the environment at every step.                 *)

\* the message of the value install_engine_update of commands/engine.rs
\* returns: the success string, the string of an AppError::Logic, and for
\* the other variants the text of the underlying error (Serialize, error.rs)
Message(r) ==
    CASE r.msg = "NoUrl" -> Msg(<<"No update URL provided.">>, 0, <<>>)
      [] r.msg = "Resolve" ->
            Msg(IF r.kind = "IO" THEN <<ERROR_TEXT>>
                ELSE <<"Failed to get executable directory">>, 0, <<>>)
      [] r.msg = "InUse" ->
            Msg(<<"Cannot update: ", r.detail[1],
                  " is currently in use. Please stop any active downloads and try again.">>,
                0, <<>>)
      [] r.msg = "ClientBuild" -> Msg(<<"Failed to create HTTP client: ", ERROR_TEXT>>, 0, <<>>)
      [] r.msg = "Status" -> Msg(<<"Download failed with status: ", STATUS_TEXT>>, 0, <<>>)
      [] r.msg = "CreateZip" -> Msg(<<"Failed to create temp ZIP file: ", ERROR_TEXT>>, 0, <<>>)
      [] r.msg = "WriteZip" -> Msg(<<"Failed to write ZIP file: ", ERROR_TEXT>>, 0, <<>>)
      [] r.msg = "Partial" ->
            \* each entry is "{binary}: {e}" with e an AppError::Io, displayed
            \* as "I/O error: {0}"
            Msg(<<"Updated ", COUNT_TEXT, " binaries, but some failed: ">>, r.count,
                [k \in 1..Len(r.detail) |-> <<r.detail[k], ": ", "I/O error: ", ERROR_TEXT>>])
      [] r.msg = "NoBinaries" ->
            Msg(<<"No engine binaries found in the update package.">>, 0, <<>>)
      [] r.msg = "Updated" ->
            Msg(<<"Engine V12 updated successfully! ", COUNT_TEXT, " binaries installed.">>,
                r.count, <<>>)
      [] OTHER -> Msg(<<ERROR_TEXT>>, 0, <<>>)

notInline == <<dpc, final_file_path, emitted, received, dret, rx, brVars, ovVars, rvVars,
               pbVars, rnVars, twVars, tmVars>>

\* the last entry of the log after the step
Logged == ops'[Len(ops')]

\* what fs::copy answered to the attempt the step made
Answered == CHOOSE ans \in LockErrors \cup {IoOk, ErrDiskFull} :
                ans.code = copyLog'[Len(copyLog')].code

InitTwin ==
    /\ locked = {}
    /\ binContent \in InitialInstalls
    /\ scratch \in {NoScratch, StaleScratch}
    /\ pc = "idle"
    /\ url = ""
    /\ binaries_dir = NoDir
    /\ idx = 1
    /\ bytes = NoBytes
    /\ updated_count = 0
    /\ errors = <<>>
    /\ result = NoResult
    /\ ops = <<>>
    /\ CopyIdle
    /\ DownloadIdle
    /\ BitrateIdle
    /\ OverlapIdle
    /\ ResolveIdle
    /\ ProbeIdle
    /\ RunsIdle
    /\ run1 = NoRun1
    /\ tally = NoTally
    /\ inl = InlineStart(binContent, scratch)

\* each step of the one with the same step of the other: the answers of the
\* environment are read from what the step of commands/engine.rs logged
NextTwin ==
    \/ /\ \E u \in Urls : Invoke(u) /\ inl' = InlineInvoke(inl, u)
       /\ UNCHANGED notInline
    \/ /\ ResolveDir
       /\ \E env \in RunEnvironments :
            LET r == resolve_binaries_dir(env) IN
            /\ IF r.ok THEN binaries_dir' = r.dir
                       ELSE result'.msg = "Resolve" /\ result'.kind = r.kind
            /\ inl' = InlineResolveDir(inl, r, Len(ops') = Len(ops) + 1, pc' = "probe")
       /\ UNCHANGED notInline
    \/ /\ ProbeLock
       /\ inl' = InlineProbeLock(inl, Logged.code = 1)
       /\ UNCHANGED notInline
    \/ /\ PrepareScratch
       /\ inl' = InlinePrepareScratch(inl,
                    Len(ops') = Len(ops) + 1 \/ ops'[Len(ops') - 1].code = 0,
                    Logged.code = 0)
       /\ UNCHANGED notInline
    \/ /\ HttpGet
       /\ inl' = InlineHttpGet(inl, IF pc' = "write" THEN "Ok" ELSE result'.msg, bytes')
       /\ UNCHANGED notInline
    \/ /\ WriteZip
       /\ inl' = InlineWriteZip(inl, IF Logged.op = "create_zip" THEN "create"
                                     ELSE IF Logged.code = 1 THEN "write" ELSE "ok")
       /\ UNCHANGED notInline
    \/ /\ ExtractZip
       /\ \E p \in FailurePoints(bytes) :
            LET out == extract_zip_at(scratch.nodes, bytes, p) IN
            /\ scratch'.nodes = out.nodes
            /\ Logged.bin = out.err
            /\ \E op \in (IF p.step = "io" THEN IoOperations(bytes.entries[p.f])
                          ELSE {""}) :
                 inl' = InlineExtract(inl, p, op)
       /\ UNCHANGED notInline
    \/ /\ FindBinary
       /\ inl' = InlineFindBinary(inl, source')
       /\ UNCHANGED notInline
    \/ /\ CopyAttempt
       /\ inl' = InlineCopyAttempt(inl, Answered,
                                   Answered # IoOk /\ binContent'[target] = Truncated)
       /\ UNCHANGED notInline
    \/ /\ CopySleep
       /\ inl' = InlineCopySleep(inl)
       /\ UNCHANGED notInline
    \/ /\ AfterCopy
       /\ inl' = InlineAfterCopy(inl)
       /\ UNCHANGED notInline
    \/ /\ Finish
       /\ inl' = InlineFinish(inl, Logged.code = 0)
       /\ UNCHANGED notInline
    \/ (\E b \in Binaries : LockBinary(b)) /\ UNCHANGED dlVars
    \/ (\E b \in Binaries : UnlockBinary(b)) /\ UNCHANGED dlVars

SpecTwin == InitTwin /\ [][NextTwin]_vars

\* the two are at the same step, have made the same probes, operations on
\* the scratch directory and copy attempts, and left the same files
SameOperations ==
    /\ inl.pc = pc
    /\ inl.cpc = cpc
    /\ inl.ops = ops
    /\ inl.copyLog = copyLog
    /\ inl.binContent = binContent
    /\ inl.scratch = scratch

\* the failures whose message the two write with the same words
SameWords(r) ==
    \/ r.msg \in {"NoUrl", "InUse", "Status", "CreateZip", "WriteZip", "NoBinaries"}
    \/ r.msg = "Resolve" /\ r.kind = "LOGIC"

====
